---- MODULE Spec2Model ----
(***************************************************************************)
(* Model of the Stream Deck "Teams Avatar" plugin: the rotating carousel   *)
(* action (TeamsRotating) as an event-driven state machine.  One step of   *)
(* the model is one run-to-completion turn of the JavaScript event loop:   *)
(* a timer callback, a device event, or the continuation of an async       *)
(* function after one of its awaits.                                       *)
(***************************************************************************)
EXTENDS Integers, Sequences, FiniteSets, TLC

VARIABLES rot, dd, av, fn

vars == <<rot, dd, av, fn>>

(***************************************************************************)
(* Bounds of the model.                                                    *)
(***************************************************************************)
\* Settings changes in one run.
MaxSettingsChanges == 1

\* Roster polls that may be outstanding when the poll timer ticks or the
\* action appears.
MaxPollsInFlight == 1

\* The poll timers of a single-avatar session that run with no handle left.
MaxOrphanIntervals == 1

\* Connectivity tests of a session that have not been reverted yet
MaxTests == 1

\* The longest roster handed to the sort on its own.
MaxRoster == 4

\* The longest display name built from the alphabet of names.
MaxName == 4

\* Characters of the longest name whose background colour is computed
MaxHashed == 8

(***************************************************************************)
(* Values.                                                                 *)
(***************************************************************************)
\* The value of (i + 1) % 0 in JavaScript; also the index of no element.
NaN == -1

\* Number of crossfade frames: the loop runs frame = 0..24.
LastFrame == 24

FrameCount == LastFrame + 1

\* An image: the data URL the code passes around, described by what it shows.
\*   src   "null" | "fetched" | "initials" | "static" | "frame"
\*   id    userId of a fetched avatar, name of an initials image, kind of a
\*         static image
\*   text  the initials drawn on an initials image
\*   enc   "blob" (bytes as delivered by the webhook) | "canvas" (PNG
\*         re-encoded from a 144x144 canvas)
\*   badge the number drawn over the image, 0 for none
Image(src, id, text, enc, badge) ==
  [src |-> src, id |-> id, text |-> text, enc |-> enc, badge |-> badge]

Null == Image("null", << >>, << >>, "", 0)

StaticImage(kind) == Image("static", <<kind>>, << >>, "canvas", 0)

\* blobToDataUrl of the body of a 2xx avatar response
FetchedImage(userId) == Image("fetched", userId, << >>, "blob", 0)

\* Strings the code takes apart are sequences of one-character strings.
LowerCase ==
  <<"a", "b", "c", "d", "e", "f", "g", "h", "i", "j", "k", "l", "m",
    "n", "o", "p", "q", "r", "s", "t", "u", "v", "w", "x", "y", "z">>

UpperCase ==
  <<"A", "B", "C", "D", "E", "F", "G", "H", "I", "J", "K", "L", "M",
    "N", "O", "P", "Q", "R", "S", "T", "U", "V", "W", "X", "Y", "Z">>

\* String.prototype.toUpperCase on one character
ToUpperCase(c) ==
  IF \E i \in 1..Len(LowerCase) : LowerCase[i] = c
  THEN UpperCase[CHOOSE i \in 1..Len(LowerCase) : LowerCase[i] = c]
  ELSE c

\* displayName.split(' ').filter(name => name.length > 0)
RECURSIVE SplitNames(_, _)
SplitNames(s, word) ==
  IF s = << >> THEN (IF word = << >> THEN << >> ELSE <<word>>)
  ELSE IF s[1] = " "
       THEN (IF word = << >> THEN << >> ELSE <<word>>) \o SplitNames(Tail(s), << >>)
       ELSE SplitNames(Tail(s), Append(word, s[1]))

\* The initials of every name, slice(0, 2) left out.
InitialsOfAllNames(displayName) ==
  LET names == SplitNames(displayName, << >>)
  IN [i \in 1..Len(names) |-> ToUpperCase(names[i][1])]

\* names.map(name => name.charAt(0).toUpperCase()).slice(0, 2).join('')
Initials(displayName) ==
  LET names == SplitNames(displayName, << >>)
  IN [i \in 1..(IF Len(names) < 2 THEN Len(names) ELSE 2) |-> ToUpperCase(names[i][1])]

\* No override initials (null)
NoInitials == << >>

generateInitialsImage(displayName, defaultInitials) ==
  Image("initials", displayName,
        IF defaultInitials # NoInitials THEN defaultInitials ELSE Initials(displayName),
        "canvas", 0)

\* The characters with char codes 32..126, in code order (the grave accent,
\* code 96, by its name)
Ascii ==
  <<
    " ", "!", "\"", "#", "$", "%", "&", "'", "(", ")", "*", "+", ",", "-", ".", "/",
    "0", "1", "2", "3", "4", "5", "6", "7", "8", "9", ":", ";", "<", "=", ">", "?",
    "@", "A", "B", "C", "D", "E", "F", "G", "H", "I", "J", "K", "L", "M", "N", "O",
    "P", "Q", "R", "S", "T", "U", "V", "W", "X", "Y", "Z", "[", "\\", "]", "^", "_",
    "grave", "a", "b", "c", "d", "e", "f", "g", "h", "i", "j", "k", "l", "m", "n", "o",
    "p", "q", "r", "s", "t", "u", "v", "w", "x", "y", "z", "{", "|", "}", "~"
  >>

\* b.charCodeAt(0)
charCodeAt(b) == 31 + CHOOSE i \in 1..Len(Ascii) : Ascii[i] = b

\* A 32-bit integer is kept as its two 16-bit halves (two's complement).
Half == 65536

Int32(hi, lo) == [hi |-> hi, lo |-> lo]

\* a << 5
ShiftLeft5(a) == Int32((a.hi * 32 + ((a.lo * 32) \div Half)) % Half, (a.lo * 32) % Half)

\* a - b, and a + code for a char code, modulo 2^32
Minus(a, b) ==
  Int32((a.hi - b.hi - (IF a.lo < b.lo THEN 1 ELSE 0)) % Half, (a.lo - b.lo) % Half)

Plus(a, code) == Int32((a.hi + ((a.lo + code) \div Half)) % Half, (a.lo + code) % Half)

IsNegative(a) == a.hi >= Half \div 2

\* displayName.split('').reduce((a, b) => { a = ((a << 5) - a) + b.charCodeAt(0);
\* return a & a }, 0): the sum is taken modulo 2^32 at each operation, which
\* is what a & a makes of it.
RECURSIVE hash(_)
hash(displayName) ==
  IF displayName = << >> THEN Int32(0, 0)
  ELSE LET a == hash(SubSeq(displayName, 1, Len(displayName) - 1))
           b == displayName[Len(displayName)]
       IN Plus(Minus(ShiftLeft5(a), a), charCodeAt(b))

colors ==
  <<"#B0C4DE", "#98FB98", "#FFB6C1", "#FFDAB9", "#DDA0DD", "#AFEEEE", "#D3D3D3", "#FFFACD">>

\* hash % colors.length, Math.abs left out: the remainder has the sign of hash.
colorIndexSigned(a) ==
  IF IsNegative(a) THEN 0 - (Minus(Int32(0, 0), a).lo % Len(colors)) ELSE a.lo % Len(colors)

\* Math.abs(hash) % colors.length
colorIndex(a) ==
  (IF IsNegative(a) THEN Minus(Int32(0, 0), a) ELSE a).lo % Len(colors)

\* colors[Math.abs(hash) % colors.length]
backgroundColor(displayName) ==
  LET i == colorIndex(hash(displayName))
  IN IF i \in 0..(Len(colors) - 1) THEN colors[i + 1] ELSE "undefined"

\* An overlay that hands back its input when there is nothing to draw.
overlayCountOnImageUnchangedAtZero(img, count) ==
  IF count > 0 THEN [img EXCEPT !.enc = "canvas", !.badge = count] ELSE img

\* overlayCountOnImage: the image is redrawn on a canvas and re-encoded, the
\* count is drawn only when it is positive.
overlayCountOnImage(img, count) ==
  [img EXCEPT !.enc = "canvas", !.badge = IF count > 0 THEN count ELSE @]

\* One crossfade frame: cur with weight (24 - i)/24 and next with weight i/24.
Frame(cur, next, i) ==
  [src |-> "frame", cur |-> cur, next |-> next, wCur |-> LastFrame - i, wNext |-> i]

\* Roster entries as the rotating webhook delivers them.
Entry(userId, displayName, count, fromType) ==
  [userId |-> userId, displayName |-> displayName, count |-> count, fromType |-> fromType]

\* A roster entry that has no count field
NoCount == -2

\* count || 0
CountOf(user) == IF user.count = NoCount THEN 0 ELSE user.count

Undefined == Entry(<<"undefined">>, << >>, 0, "undefined")

Workflows == <<"W", "o", "r", "k", "f", "l", "o", "w", "s">>

U1(c) == Entry(<<"u", "1">>, <<"A", "n", "n", " ", "l", "e", "e">>, c, "user")

B1(c) == Entry(<<"b", "1">>, Workflows, c, "bot")

\* Bodies of 200 responses of the rotating webhook (in delivery order).
RosterResponses ==
  { <<B1(3), U1(5)>>, <<U1(5), B1(7)>>, <<U1(5)>>, << >> }

\* Settings: a URL is modelled by whether it is set.
Settings(rotatingUrl, avatarUrl, disableAnimation, title) ==
  [rotatingWebhookUrl |-> rotatingUrl, avatarWebhookUrl |-> avatarUrl,
   disableAnimation |-> disableAnimation, useDisplayNameAsTitle |-> title]

\* An environment: the settings the user may choose and the answers the
\* webhooks may give.
\* watch names what is recorded of a run besides the object's own state:
\* "display" (the image and title on the device), "writes" (the number of
\* setImage calls), "resolve" (the avatar resolutions a turn began),
\* "request" (the requests a turn sent).
Environment(settings, rosters, rosterOutcomes, avatarOutcomes, watch) ==
  [settings |-> settings, rosters |-> rosters,
   rosterOutcomes |-> rosterOutcomes, avatarOutcomes |-> avatarOutcomes,
   watch |-> watch]

\* Outcomes of the roster request and of the avatar request.
RosterOutcomes == {"ok", "http", "notArray", "throw"}

AvatarOutcomes == {"ok", "http", "badBody", "throw"}

(***************************************************************************)
(* State keys of the display dedup guard.                                  *)
(***************************************************************************)
Key(kind, userId, count, index) == <<kind, userId, count, index>>

NullKey == Key("null", << >>, 0, 0)

StaticKey(kind) == Key(kind, << >>, 0, 0)

AvatarKey(user, index) == Key("avatar", user.userId, CountOf(user), index)

\* `${userId}_${count}`
CacheKey(user) == <<user.userId, CountOf(user)>>

(***************************************************************************)
(* Pure helpers of fetchUsersData.                                         *)
(***************************************************************************)
\* Array.prototype.sort with (a, b) => b.count - a.count is a stable sort:
\* e goes behind every element whose count is at least e.count.
\* A sort that puts e before the elements of equal count.
RECURSIVE InsertByCountBeforeTies(_, _)
InsertByCountBeforeTies(s, e) ==
  IF s = << >> THEN <<e>>
  ELSE IF CountOf(s[Len(s)]) > CountOf(e) THEN Append(s, e)
  ELSE Append(InsertByCountBeforeTies(SubSeq(s, 1, Len(s) - 1), e), s[Len(s)])

RECURSIVE InsertByCount(_, _)
InsertByCount(s, e) ==
  IF s = << >> THEN <<e>>
  ELSE IF CountOf(s[Len(s)]) >= CountOf(e) THEN Append(s, e)
  ELSE Append(InsertByCount(SubSeq(s, 1, Len(s) - 1), e), s[Len(s)])

RECURSIVE SortByCountDesc(_)
SortByCountDesc(s) ==
  IF s = << >> THEN << >>
  ELSE InsertByCount(SortByCountDesc(SubSeq(s, 1, Len(s) - 1)), s[Len(s)])

\* Array.prototype.findIndex on userId: 0-based, -1 when absent.
FindIndex(us, userId) ==
  IF \E i \in 1..Len(us) : us[i].userId = userId
  THEN (CHOOSE i \in 1..Len(us) :
          /\ us[i].userId = userId
          /\ \A j \in 1..(i - 1) : us[j].userId # userId) - 1
  ELSE -1

\* this.users[i]
UserAt(us, i) == IF i \in 0..(Len(us) - 1) THEN us[i + 1] ELSE Undefined

\* (i + 1) % n as JavaScript computes it
NextIndex(i, n) == IF i = NaN \/ n = 0 THEN NaN ELSE (i + 1) % n

\* The index kept as it was, not looked up in the new roster.
NewIndexKeep(oldUsers, oldIndex, sortedUsers) ==
  IF oldIndex \in 0..(Len(sortedUsers) - 1) THEN oldIndex ELSE 0

NewIndex(oldUsers, oldIndex, sortedUsers) ==
  LET currentUser == UserAt(oldUsers, oldIndex)
      foundIndex == FindIndex(sortedUsers, currentUser.userId)
  IN IF currentUser # Undefined /\ foundIndex # -1 THEN foundIndex ELSE 0

RemoveAt(s, i) == SubSeq(s, 1, i - 1) \o SubSeq(s, i + 1, Len(s))

(***************************************************************************)
(* The TeamsRotating instance.  rot holds the fields of the object, the    *)
(* timers and async continuations the runtime holds for it, what the       *)
(* device shows for it, and a record of what the last turn did.            *)
(***************************************************************************)
\* What a turn did.  For an avatar resolution begun in the turn: who ("next"
\* or "current"), its cache key, the work it led to ("hit", "synth", "fetch"),
\* whether a resolution of the key had been begun (seen) or had completed
\* (done) since the last settings change, and what it found: the key in the
\* cache, a bot entry, an avatar webhook URL.
Event(t, who, key, work, seen, done, cached, bot, url) ==
  [t |-> t, who |-> who, key |-> key, work |-> work, seen |-> seen, done |-> done,
   cached |-> cached, bot |-> bot, url |-> url]

NoKey == << << >>, 0 >>

Did(st, aspect, e) == IF aspect \in st.watch THEN [st EXCEPT !.log = @ \cup {e}] ELSE st

\* Action.setImage / Action.setTitle: a write to the display surface
setImage(st, image) ==
  LET st1 == IF "display" \in st.watch THEN [st EXCEPT !.shownImage = image] ELSE st
  IN IF "writes" \in st.watch THEN [st1 EXCEPT !.writes = @ + 1] ELSE st1

setTitle(st, title) ==
  IF "display" \in st.watch THEN [st EXCEPT !.shownTitle = title] ELSE st

\* The guard left out: every call writes.
setImageIfChangedAlways(st, image, stateKey) ==
  setImage([st EXCEPT !.lastDisplayedState = stateKey], image)

setImageIfChanged(st, image, stateKey) ==
  IF st.lastDisplayedState = stateKey
  THEN st
  ELSE setImage([st EXCEPT !.lastDisplayedState = stateKey], image)

\* A cache whose lookups always miss.
CacheHasNever(cache, key) == FALSE

\* avatarCache.has(cacheKey)
CacheHas(cache, key) == key \in DOMAIN cache

\* A cache that drops what is stored.
CacheSetNothing(cache, key, image) == cache

\* avatarCache.set(cacheKey, image)
CacheSet(cache, key, image) ==
  [k \in (DOMAIN cache) \cup {key} |-> IF k = key THEN image ELSE cache[k]]

EmptyCache == [k \in {} |-> Null]

\* displayName || userId
NameOf(user) == IF user.displayName # << >> THEN user.displayName ELSE user.userId

\* A display name that the webhook delivered as a JSON number: it has no
\* split method, so generateInitialsImage throws a TypeError on it.
NotAString == <<"42">>

IsString(name) == name # NotAString

B2(c) == Entry(<<"b", "2">>, NotAString, c, "bot")

\* The bot check left out.
BranchIgnoringBot(st, user) ==
  IF ~st.settings.avatarWebhookUrl THEN "noUrl" ELSE "fetch"

\* Which way an avatar resolution goes once the cache has missed.
Branch(st, user) ==
  IF user.fromType = "bot" THEN "bot"
  ELSE IF ~st.settings.avatarWebhookUrl THEN "noUrl"
  ELSE "fetch"

\* No initials fallback when the avatar request fails.
ResolvedImageNoFallback(user, branch, outcome) ==
  IF branch = "fetch" /\ outcome # "ok"
  THEN Null
  ELSE overlayCountOnImage(
         IF branch = "fetch" THEN FetchedImage(user.userId)
         ELSE generateInitialsImage(NameOf(user), NoInitials),
         user.count)

\* The composite image a resolution ends with.
ResolvedImage(user, branch, outcome) ==
  LET baseImage ==
        IF branch = "bot"
        THEN generateInitialsImage(NameOf(user),
               IF user.displayName = Workflows THEN <<"W", "F">> ELSE NoInitials)
        ELSE IF branch = "fetch" /\ outcome = "ok"
        THEN FetchedImage(user.userId)
        ELSE generateInitialsImage(NameOf(user), NoInitials)
  IN overlayCountOnImage(baseImage, CountOf(user))

\* The first turn of an avatar resolution, up to its first await.
\* slot is "next" or "current": the image field, flag and queue it works on.
Resolution(user, branch, epoch) == [user |-> user, branch |-> branch, epoch |-> epoch]

BeginResolution(st, who, user) ==
  LET key == CacheKey(user)
      hit == CacheHas(st.avatarCache, key)
      branch == Branch(st, user)
      work == IF hit THEN "hit" ELSE IF branch = "fetch" THEN "fetch" ELSE "synth"
      st1 == Did([st EXCEPT !.started = @ \cup {key}], "resolve",
                 Event("resolve", who, key, work, key \in st.started, key \in st.finished,
                       key \in DOMAIN st.avatarCache, user.fromType = "bot",
                       st.settings.avatarWebhookUrl))
  IN IF hit
     THEN IF who = "next"
          THEN [st1 EXCEPT !.nextAvatarImage = st.avatarCache[key]]
          ELSE [st1 EXCEPT !.currentAvatarImage = st.avatarCache[key]]
     ELSE IF branch = "bot" /\ ~IsString(NameOf(user))
     THEN \* generateInitialsImage throws outside the try block: the call
          \* rejects with its flag set
          IF who = "next"
          THEN [st1 EXCEPT !.isFetchingNext = TRUE]
          ELSE [st1 EXCEPT !.isFetchingCurrent = TRUE]
     ELSE IF branch = "noUrl" /\ ~IsString(NameOf(user))
     THEN \* it throws in the try block and again in the catch block: the
          \* finally block clears the flag and the call rejects
          st1
     ELSE IF who = "next"
          THEN [st1 EXCEPT !.isFetchingNext = TRUE,
                           !.nextFetches = Append(@, Resolution(user, branch, st.changes))]
          ELSE [st1 EXCEPT !.isFetchingCurrent = TRUE,
                           !.currentFetches = Append(@, Resolution(user, branch, st.changes))]

\* The prefetch of this user rejects before its first await
RejectsAtOnce(st, user) ==
  /\ ~CacheHas(st.avatarCache, CacheKey(user))
  /\ Branch(st, user) # "fetch"
  /\ ~IsString(NameOf(user))

\* The initials fallback of a resolution behind its request throws
FallbackThrows(r, outcome) ==
  r.branch = "fetch" /\ outcome # "ok" /\ ~IsString(NameOf(r.user))

prefetchNextAvatar(st) ==
  LET nextIndex == NextIndex(st.currentUserIndex, Len(st.users))
      nextUser == UserAt(st.users, nextIndex)
  IN IF st.isFetchingNext THEN st
     ELSE IF Len(st.users) = 0 THEN st
     ELSE IF nextUser = Undefined THEN st
     ELSE BeginResolution(st, "next", nextUser)

prefetchCurrentAvatar(st) ==
  LET currentUser == UserAt(st.users, st.currentUserIndex)
  IN IF st.isFetchingCurrent THEN st
     ELSE IF Len(st.users) = 0 THEN st
     ELSE IF currentUser = Undefined THEN st
     ELSE BeginResolution(st, "current", currentUser)

updateDisplay(st0) ==
  LET st == Did(st0, "display", "updateDisplay") IN
  IF Len(st.users) = 0
  THEN LET st1 == setImageIfChanged(st, StaticImage("noUsers"), StaticKey("noUsers"))
       IN IF st.settings.useDisplayNameAsTitle THEN setTitle(st1, << >>) ELSE st1
  ELSE LET currentUser == UserAt(st.users, st.currentUserIndex)
           stateKey == AvatarKey(currentUser, st.currentUserIndex)
           st1 == IF st.currentAvatarImage # Null
                  THEN setImageIfChanged(st, st.currentAvatarImage, stateKey)
                  ELSE IF st.nextAvatarImage # Null
                  THEN prefetchNextAvatar(
                         [setImageIfChanged(st, st.nextAvatarImage, stateKey)
                            EXCEPT !.currentAvatarImage = st.nextAvatarImage,
                                   !.nextAvatarImage = Null])
                  ELSE st
       IN IF st.settings.useDisplayNameAsTitle
          THEN setTitle(st1, currentUser.displayName)
          ELSE setTitle(st1, << >>)

\* The four titles testConnection writes
UrlsRequired == <<"U", "R", "L", "s", "\n", "R", "e", "q", "u", "i", "r", "e", "d">>

TestOK == <<"T", "e", "s", "t", " ", "O", "K">>

TestFail == <<"T", "e", "s", "t", " ", "F", "a", "i", "l">>

TestError == <<"T", "e", "s", "t", " ", "E", "r", "r", "o", "r">>

\* setTimeout(() => this.updateDisplay(context), 2000)
RevertLater(st) == [st EXCEPT !.reverts = @ + 1]

\* testConnection up to its await: payload is the settings the property
\* inspector sent along.
testConnection(st, payload) ==
  IF ~payload.avatarWebhookUrl \/ ~payload.rotatingWebhookUrl
  THEN RevertLater(setTitle(st, UrlsRequired))
  ELSE [st EXCEPT !.tests = @ + 1]

\* testConnection after its await, with the outcome of the fetch
testConnectionAnswered(st, outcome) ==
  LET st1 == [st EXCEPT !.tests = @ - 1]
  IN CASE outcome = "ok" -> RevertLater(setTitle(st1, TestOK))
       [] outcome = "http" -> RevertLater(setTitle(st1, TestFail))
       [] OTHER -> RevertLater(setTitle(st1, TestError))

showNextUser(st) ==
  IF Len(st.users) = 0
  THEN setImageIfChanged(st, StaticImage("noUsers"), StaticKey("noUsers"))
  ELSE updateDisplay(prefetchNextAvatar(
         [st EXCEPT !.currentUserIndex = NextIndex(@, Len(st.users)),
                    !.currentAvatarImage = st.nextAvatarImage,
                    !.nextAvatarImage = Null]))

(***************************************************************************)
(* Crossfade transition.  The frame timer is transitionInterval; ownSafety *)
(* says that the safety timeout its callback captured is still pending,    *)
(* staleSafety counts the pending safety timeouts no frame timer refers to *)
(* any more.                                                               *)
(***************************************************************************)
\* clearInterval(this.transitionInterval): the safety timeout stays pending
ClearTransitionInterval(st) ==
  IF st.transitionInterval
  THEN [st EXCEPT !.transitionInterval = FALSE,
                  !.ownSafety = FALSE,
                  !.staleSafety = IF st.ownSafety THEN @ + 1 ELSE @]
  ELSE st

\* One generateTransitionFrames in flight: stage 1 waits for the load of the
\* current image, stage 2 for the load of the next image.
FrameGen(stage, cur, next) == [stage |-> stage, cur |-> cur, next |-> next]

\* A loop that stops one frame early.
TransitionFramesUpToLast(cur, next) == [i \in 1..LastFrame |-> Frame(cur, next, i - 1)]

TransitionFrames(cur, next) == [i \in 1..FrameCount |-> Frame(cur, next, i - 1)]

\* A crossfade started without looking at the next image.
showNextUserWithTransitionUnchecked(st) ==
  IF Len(st.users) = 0 \/ st.isTransitioning THEN st
  ELSE IF st.currentAvatarImage = Null
  THEN showNextUser(st)
  ELSE [st EXCEPT !.isTransitioning = TRUE,
                  !.transitionFrames = << >>,
                  !.frameGens = Append(@, FrameGen(1, st.currentAvatarImage, Null))]

showNextUserWithTransition(st) ==
  IF Len(st.users) = 0 \/ st.isTransitioning THEN st
  ELSE IF st.currentAvatarImage = Null \/ st.nextAvatarImage = Null
  THEN showNextUser(st)
  ELSE [st EXCEPT !.isTransitioning = TRUE,
                  !.transitionFrames = << >>,
                  !.frameGens = Append(@, FrameGen(1, st.currentAvatarImage, Null))]

playTransition(st) ==
  [ClearTransitionInterval(
     [st EXCEPT !.currentFrameIndex = 0,
                !.lastDisplayedState = StaticKey("transitioning")])
     EXCEPT !.ownSafety = TRUE, !.transitionInterval = TRUE]

completeTransition(st) ==
  LET st1 == [st EXCEPT !.ownSafety = FALSE,
                        !.transitionInterval = FALSE,
                        !.isTransitioning = FALSE,
                        !.currentUserIndex = NextIndex(@, Len(st.users)),
                        !.currentAvatarImage = st.nextAvatarImage,
                        !.nextAvatarImage = Null]
      st2 == updateDisplay(st1)
      st3 == IF Len(st2.users) > 0 THEN prefetchNextAvatar(st2) ELSE st2
  IN [st3 EXCEPT !.transitionFrames = << >>]

\* A key press that takes the animated path of the carousel.
showNextUserAnimated(st) ==
  IF st.isTransitioning THEN st ELSE showNextUserWithTransition(st)

\* The handler of a key press: always the instant switch
KeyUp(st) == showNextUser(st)

\* A forced completion that moves on like a normal one.
forceCompleteTransitionAdvancing(st) == completeTransition(ClearTransitionInterval(st))

forceCompleteTransition(st) ==
  LET st1 == [ClearTransitionInterval(st) EXCEPT !.isTransitioning = FALSE,
                                                 !.transitionFrames = << >>]
      st2 == updateDisplay(st1)
  IN IF Len(st2.users) > 0 THEN prefetchNextAvatar(st2) ELSE st2

(***************************************************************************)
(* Polling and carousel timers.                                            *)
(***************************************************************************)
\* A poll that sends its request whether or not the URL is set.
fetchUsersDataUnchecked(st) ==
  Did([st EXCEPT !.rosterFetches = Append(@, st.changes)], "request",
      Event("request", "roster", NoKey, "", FALSE, FALSE, FALSE, FALSE, FALSE))

fetchUsersData(st) ==
  IF ~st.settings.rotatingWebhookUrl
  THEN setImageIfChanged(st, StaticImage("configRequired"), StaticKey("configRequired"))
  ELSE Did([st EXCEPT !.rosterFetches = Append(@, st.changes)], "request",
           Event("request", "roster", NoKey, "", FALSE, FALSE, FALSE, FALSE, FALSE))

\* fetchUsersData behind "await this.prefetchCurrentAvatar()"
PollTail(st) ==
  updateDisplay(IF ~st.isFetchingNext /\ Len(st.users) > 0
                THEN prefetchNextAvatar(st)
                ELSE st)

\* fetchUsersData from the roster response to its next await or its end
RosterReceived(st, outcome, usersData) ==
  IF outcome \in {"http", "throw"}
  THEN setImageIfChanged(st, StaticImage("error"), StaticKey("error"))
  ELSE IF outcome = "notArray"
  THEN setImageIfChanged(st, StaticImage("invalidData"), StaticKey("invalidData"))
  ELSE LET sortedUsers == SortByCountDesc(usersData)
           newIndex == NewIndex(st.users, st.currentUserIndex, sortedUsers)
           st1 == [st EXCEPT !.users = sortedUsers, !.currentUserIndex = newIndex]
           st2 == IF Len(st1.users) > 0 THEN prefetchCurrentAvatar(st1) ELSE st1
           currentUser == UserAt(st1.users, st1.currentUserIndex)
       IN IF /\ Len(st1.users) > 0
             /\ ~st1.isFetchingCurrent
             /\ currentUser # Undefined
             /\ RejectsAtOnce(st1, currentUser)
          THEN setImageIfChanged(st2, StaticImage("error"), StaticKey("error"))
          ELSE IF Len(st2.currentFetches) > Len(st1.currentFetches)
          THEN st2
          ELSE PollTail(st2)

stopPolling(st) == [st EXCEPT !.pollingInterval = FALSE]

startPolling(st) == [fetchUsersData(stopPolling(st)) EXCEPT !.pollingInterval = TRUE]

stopCarousel(st) == ClearTransitionInterval([st EXCEPT !.carouselInterval = "null"])

startCarousel(st) ==
  [stopCarousel(st) EXCEPT
     !.carouselInterval = IF st.settings.disableAnimation THEN "instant" ELSE "animated"]

PollLoad(st) == Len(st.rosterFetches) + Len(st.currentFetches)

(***************************************************************************)
(* The TeamsAvatar instance (single-avatar mode).  av holds the fields of  *)
(* the object, its timers and the continuations of its fetchData calls.    *)
(***************************************************************************)
\* Settings of the single-avatar action: the e-mail address ("" is << >>)
\* and whether each URL is set.
AvatarSettings(userEmail, avatarUrl, messagesUrl) ==
  [userEmail |-> userEmail, avatarWebhookUrl |-> avatarUrl,
   messagesWebhookUrl |-> messagesUrl]

EmailA == <<"a", "@", "x">>

EmailB == <<"b", "@", "x">>

\* The body of a 2xx avatar response that is no image, as a data URL
GarbageImage(userId) == Image("garbage", userId, << >>, "blob", 0)

\* `avatar:${email}_${this.unreadCount}`
AvatarStateKey(email, unreadCount) == Key("avatar", email, unreadCount, 0)

\* One fetchData in flight: the await it is at, the e-mail it read at its
\* start, whether startPolling awaits it (to create the timer after it), how
\* its avatar was obtained ("cached" or the outcome of the request), and for
\* the await in updateDisplay the image, count and key it computed.
FetchData(stage, email, caller, avatar, image, count, stateKey) ==
  [stage |-> stage, email |-> email, caller |-> caller, avatar |-> avatar,
   image |-> image, count |-> count, stateKey |-> stateKey]

AvSetImage(a, image) == [a EXCEPT !.shownImage = image, !.writes = @ + 1]

AvSetImageIfChanged(a, image, stateKey) ==
  IF a.lastDisplayedImageState = stateKey
  THEN a
  ELSE AvSetImage([a EXCEPT !.lastDisplayedImageState = stateKey], image)

\* startPolling behind "await this.fetchData(context)": the poll timer is
\* created and its handle stored over whatever this.interval held.
AvFetchDataReturns(a, caller) ==
  IF caller = "startPolling"
  THEN [a EXCEPT !.interval = TRUE,
                 !.orphanIntervals = IF a.interval THEN @ + 1 ELSE @,
                 !.op.done = TRUE]
  ELSE [a EXCEPT !.op.done = TRUE]

\* The catch block of fetchData
AvFetchDataFails(a, caller) ==
  AvFetchDataReturns(
    AvSetImageIfChanged(a, StaticImage("error"), StaticKey("error")), caller)

\* updateDisplay up to its await
AvUpdateDisplay(a, f) ==
  IF a.avatarImage # Null
  THEN [a EXCEPT !.fetches = Append(@,
          FetchData("overlay", f.email, f.caller, f.avatar, a.avatarImage, a.unreadCount,
                    AvatarStateKey(a.settings.userEmail, a.unreadCount)))]
  ELSE AvFetchDataReturns(a, f.caller)

\* A fetchData that asks the avatar webhook on every poll.
AvFetchDataUncached(a, caller) ==
  LET email == a.settings.userEmail
  IN IF email = << >> \/ ~a.settings.avatarWebhookUrl \/ ~a.settings.messagesWebhookUrl
     THEN AvFetchDataReturns(
            AvSetImageIfChanged(a, StaticImage("configRequired"),
                                StaticKey("configRequired")), caller)
     ELSE [a EXCEPT !.fetches = Append(@, FetchData("avatar", email, caller, "",
                                                    Null, 0, NullKey))]

\* fetchData up to its first await
AvFetchData(a, caller) ==
  LET email == a.settings.userEmail
  IN IF email = << >> \/ ~a.settings.avatarWebhookUrl \/ ~a.settings.messagesWebhookUrl
     THEN AvFetchDataReturns(
            AvSetImageIfChanged(a, StaticImage("configRequired"),
                                StaticKey("configRequired")), caller)
     ELSE IF CacheHas(a.avatarCache, email)
     THEN [a EXCEPT !.avatarImage = a.avatarCache[email],
                    !.fetches = Append(@, FetchData("messages", email, caller, "cached",
                                                    Null, 0, NullKey))]
     ELSE [a EXCEPT !.fetches = Append(@, FetchData("avatar", email, caller, "",
                                                    Null, 0, NullKey))]

\* clearInterval(this.interval)
AvClearInterval(a) == [a EXCEPT !.interval = FALSE]

AvStartPolling(a) == AvFetchData(AvClearInterval(a), "startPolling")

\* What the last turn did: the handler or continuation, the outcome it
\* processed, how the fetchData it continued got its avatar, and whether
\* that fetchData returned in it.
AvOp(name, arg) ==
  [name |-> name, arg |-> arg, avatar |-> "", done |-> FALSE, length |-> 0]

AvNoOp == AvOp("constructor", "")

AvInit(settings) ==
  [settings |-> settings,
   visible |-> FALSE,
   interval |-> FALSE,
   orphanIntervals |-> 0,
   avatarImage |-> Null,
   unreadCount |-> 0,
   avatarCache |-> EmptyCache,
   lastDisplayedImageState |-> NullKey,
   fetches |-> << >>,
   tests |-> 0,
   reverts |-> 0,
   shownImage |-> Null,
   writes |-> 0,
   changes |-> 0,
   op |-> AvNoOp]

AvTurn(a, name, arg) == [a EXCEPT !.op = AvOp(name, arg), !.writes = 0]

\* A call of a pure function: its name, arguments and result.
FnCall(name, input, output) == [name |-> name, input |-> input, output |-> output]

FnInit == FnCall("none", << >>, << >>)

(***************************************************************************)
(* Initial state: the object as the constructor leaves it, not yet shown.  *)
(***************************************************************************)
NoOp == [name |-> "constructor", arg |-> "", key |-> NoKey]

RotInit(settings, watch) ==
  [settings |-> settings,
   watch |-> watch,
   visible |-> FALSE,
   pollingInterval |-> FALSE,
   carouselInterval |-> "null",
   transitionInterval |-> FALSE,
   ownSafety |-> FALSE,
   staleSafety |-> 0,
   users |-> << >>,
   currentUserIndex |-> 0,
   currentAvatarImage |-> Null,
   nextAvatarImage |-> Null,
   isFetchingNext |-> FALSE,
   isFetchingCurrent |-> FALSE,
   isTransitioning |-> FALSE,
   avatarCache |-> EmptyCache,
   transitionFrames |-> << >>,
   currentFrameIndex |-> 0,
   lastDisplayedState |-> NullKey,
   rosterFetches |-> << >>,
   currentFetches |-> << >>,
   nextFetches |-> << >>,
   frameGens |-> << >>,
   shownImage |-> Null,
   shownTitle |-> << >>,
   writes |-> 0,
   changes |-> 0,
   tests |-> 0,
   reverts |-> 0,
   started |-> {},
   finished |-> {},
   log |-> {},
   op |-> NoOp]

\* The dedup guard on its own: dd holds the two fields setImageIfChanged
\* works on, the number of setImage calls of the last call, and the last two
\* calls that no other write or reset separates (key "none": no such call).
NoCall == [key |-> StaticKey("none"), before |-> NullKey, writes |-> 0]

DdInit ==
  [lastDisplayedState |-> NullKey, shownImage |-> Null, writes |-> 0,
   watch |-> {"display", "writes"}, prev |-> NoCall, last |-> NoCall]

InitIn(env) ==
  /\ \E settings \in env.settings : rot = RotInit(settings, env.watch)
  /\ dd = DdInit
  /\ av = AvInit(AvatarSettings(EmailA, TRUE, TRUE))
  /\ fn = FnInit

\* A turn starts with an empty record of what it did.
Turn(st, name, arg) ==
  [st EXCEPT !.log = {}, !.op = [name |-> name, arg |-> arg, key |-> NoKey]]

(***************************************************************************)
(* Device events.                                                          *)
(***************************************************************************)
onWillAppear ==
  /\ ~rot.visible
  /\ PollLoad(rot) < MaxPollsInFlight
  /\ rot' = startCarousel(startPolling(setImage(
              [Turn(rot, "onWillAppear", "") EXCEPT
                 !.visible = TRUE,
                 !.lastDisplayedState = StaticKey("loading")],
              StaticImage("loading"))))
  /\ UNCHANGED <<dd, av, fn>>

onWillDisappear ==
  /\ rot.visible
  /\ rot' = [stopCarousel(stopPolling(Turn(rot, "onWillDisappear", "")))
               EXCEPT !.visible = FALSE]
  /\ UNCHANGED <<dd, av, fn>>

\* A settings change that keeps the cache.
onDidReceiveSettingsKeepingCache(env) ==
  /\ rot.visible
  /\ rot.changes < MaxSettingsChanges
  /\ \E settings \in env.settings :
       rot' = startCarousel(startPolling(
                [stopCarousel(stopPolling(Turn(rot, "onDidReceiveSettings", "")))
                   EXCEPT !.settings = settings,
                          !.users = << >>,
                          !.currentUserIndex = 0,
                          !.currentAvatarImage = Null,
                          !.nextAvatarImage = Null,
                          !.changes = @ + 1]))
  /\ UNCHANGED <<dd, av, fn>>

onDidReceiveSettings(env) ==
  /\ rot.visible
  /\ rot.changes < MaxSettingsChanges
  /\ \E settings \in env.settings :
       rot' = startCarousel(startPolling(
                [stopCarousel(stopPolling(Turn(rot, "onDidReceiveSettings", "")))
                   EXCEPT !.settings = settings,
                          !.users = << >>,
                          !.currentUserIndex = 0,
                          !.currentAvatarImage = Null,
                          !.nextAvatarImage = Null,
                          !.isFetchingNext = FALSE,
                          !.isFetchingCurrent = FALSE,
                          !.isTransitioning = FALSE,
                          !.avatarCache = EmptyCache,
                          !.transitionFrames = << >>,
                          !.lastDisplayedState = NullKey,
                          !.changes = @ + 1,
                          !.started = {},
                          !.finished = {}]))
  /\ UNCHANGED <<dd, av, fn>>

onKeyUp ==
  /\ rot.visible
  /\ rot' = KeyUp(Turn(rot, "onKeyUp", ""))
  /\ UNCHANGED <<dd, av, fn>>

(***************************************************************************)
(* Timer callbacks.                                                        *)
(***************************************************************************)
PollTick ==
  /\ rot.pollingInterval
  /\ PollLoad(rot) < MaxPollsInFlight
  /\ rot' = fetchUsersData(Turn(rot, "pollTick", ""))
  /\ UNCHANGED <<dd, av, fn>>

CarouselTick ==
  /\ rot.carouselInterval # "null"
  /\ rot' = IF rot.carouselInterval = "instant"
            THEN showNextUser(Turn(rot, "carouselTick", "instant"))
            ELSE IF ~rot.isTransitioning
            THEN showNextUserWithTransition(Turn(rot, "carouselTick", "animated"))
            ELSE Turn(rot, "carouselTick", "busy")
  /\ UNCHANGED <<dd, av, fn>>

\* A frame timer that writes through the dedup guard.
FrameTickThroughGuard ==
  /\ rot.transitionInterval
  /\ rot' = IF rot.currentFrameIndex < Len(rot.transitionFrames)
            THEN [setImageIfChanged(Turn(rot, "frameTick", "frame"),
                                    rot.transitionFrames[rot.currentFrameIndex + 1],
                                    StaticKey("transitioning"))
                    EXCEPT !.currentFrameIndex = @ + 1]
            ELSE completeTransition(Turn(rot, "frameTick", "complete"))
  /\ UNCHANGED <<dd, av, fn>>

FrameTick ==
  /\ rot.transitionInterval
  /\ rot' = IF rot.currentFrameIndex < Len(rot.transitionFrames)
            THEN [setImage(Turn(rot, "frameTick", "frame"),
                           rot.transitionFrames[rot.currentFrameIndex + 1])
                    EXCEPT !.currentFrameIndex = @ + 1]
            ELSE completeTransition(Turn(rot, "frameTick", "complete"))
  /\ UNCHANGED <<dd, av, fn>>

\* A safety timeout that never forces anything.
SafetyCallbackIdle(st) == st

\* The callback of a safety timeout, 2000 ms after its playTransition
SafetyCallback(st) == IF st.isTransitioning THEN forceCompleteTransition(st) ELSE st

SafetyTimeout ==
  /\ \/ /\ rot.ownSafety
        /\ rot' = SafetyCallback(
                    [Turn(rot, "safetyTimeout", IF rot.isTransitioning THEN "force" ELSE "idle")
                       EXCEPT !.ownSafety = FALSE])
     \/ /\ rot.staleSafety > 0
        /\ rot' = SafetyCallback(
                    [Turn(rot, "safetyTimeout", IF rot.isTransitioning THEN "force" ELSE "idle")
                       EXCEPT !.staleSafety = @ - 1])
  /\ UNCHANGED <<dd, av, fn>>

(***************************************************************************)
(* Continuations of async functions.                                       *)
(***************************************************************************)
RosterArrives(env) ==
  /\ \E i \in 1..Len(rot.rosterFetches), outcome \in env.rosterOutcomes :
       \E usersData \in (IF outcome = "ok" THEN env.rosters ELSE {<< >>}) :
         rot' = RosterReceived(
                  [Turn(rot, "rosterArrives", outcome)
                     EXCEPT !.rosterFetches = RemoveAt(@, i)],
                  outcome, usersData)
  /\ UNCHANGED <<dd, av, fn>>

\* The outcomes that matter for a resolution: the avatar request's, if any.
OutcomesOf(env, r) == IF r.branch = "fetch" THEN env.avatarOutcomes ELSE {"ok"}

\* prefetchCurrentAvatar behind its awaits, then the poll that awaited it
CurrentAvatarArrives(env) ==
  /\ \E i \in 1..Len(rot.currentFetches) :
       \E outcome \in OutcomesOf(env, rot.currentFetches[i]) :
         LET r == rot.currentFetches[i]
             image == ResolvedImage(r.user, r.branch, outcome)
         IN rot' = IF FallbackThrows(r, outcome)
                   THEN setImageIfChanged(
                          [Turn(rot, "currentAvatarArrives", outcome)
                             EXCEPT !.op.key = CacheKey(r.user),
                                    !.currentFetches = RemoveAt(@, i),
                                    !.isFetchingCurrent = FALSE],
                          StaticImage("error"), StaticKey("error"))
                   ELSE PollTail(
                          [Turn(rot, "currentAvatarArrives", outcome)
                             EXCEPT !.op.key = CacheKey(r.user),
                                    !.currentFetches = RemoveAt(@, i),
                                    !.currentAvatarImage = image,
                                    !.avatarCache = CacheSet(@, CacheKey(r.user), image),
                                    !.isFetchingCurrent = FALSE,
                                    !.finished = @ \cup {CacheKey(r.user)}])
  /\ UNCHANGED <<dd, av, fn>>

\* prefetchNextAvatar behind its awaits
NextAvatarArrives(env) ==
  /\ \E i \in 1..Len(rot.nextFetches) :
       \E outcome \in OutcomesOf(env, rot.nextFetches[i]) :
         LET r == rot.nextFetches[i]
             image == ResolvedImage(r.user, r.branch, outcome)
         IN rot' = IF FallbackThrows(r, outcome)
                   THEN [Turn(rot, "nextAvatarArrives", outcome)
                           EXCEPT !.op.key = CacheKey(r.user),
                                  !.nextFetches = RemoveAt(@, i),
                                  !.isFetchingNext = FALSE]
                   ELSE [Turn(rot, "nextAvatarArrives", outcome)
                           EXCEPT !.op.key = CacheKey(r.user),
                                  !.nextFetches = RemoveAt(@, i),
                                  !.nextAvatarImage = image,
                                  !.avatarCache = CacheSet(@, CacheKey(r.user), image),
                                  !.isFetchingNext = FALSE,
                                  !.finished = @ \cup {CacheKey(r.user)}]
  /\ UNCHANGED <<dd, av, fn>>

\* generateTransitionFrames behind a loadImage, then showNextUserWithTransition
ImageLoaded ==
  /\ \E i \in 1..Len(rot.frameGens) :
       LET g == rot.frameGens[i]
           st == [Turn(rot, "imageLoaded", "") EXCEPT !.frameGens = RemoveAt(@, i)]
       IN rot' =
            IF g.stage = 1
            THEN [Turn(rot, "imageLoaded", "current") EXCEPT
                    !.frameGens[i] = FrameGen(2, g.cur, rot.nextAvatarImage)]
            ELSE IF g.next = Null
            THEN showNextUser([st EXCEPT !.isTransitioning = FALSE, !.op.arg = "failed"])
            ELSE playTransition(
                   [st EXCEPT !.transitionFrames = @ \o TransitionFrames(g.cur, g.next),
                              !.op.arg = "frames"])
  /\ UNCHANGED <<dd, av, fn>>

(***************************************************************************)
(* Events, timers and continuations of the TeamsAvatar instance.           *)
(***************************************************************************)
\* The settings the user may choose for it, the answers of the avatar and
\* of the messages webhook, and the numbers of messages delivered.
AvatarEnvironment(settings, avatarOutcomes, messagesOutcomes, counts) ==
  [settings |-> settings, avatarOutcomes |-> avatarOutcomes,
   messagesOutcomes |-> messagesOutcomes, counts |-> counts]

MessagesOutcomes == {"ok", "http", "notArray", "throw"}

AvOnWillAppear ==
  /\ ~av.visible
  /\ Len(av.fetches) < MaxPollsInFlight
  /\ av.orphanIntervals < MaxOrphanIntervals
  /\ av' = AvStartPolling(
             [AvSetImage([AvTurn(av, "onWillAppear", "") EXCEPT !.visible = TRUE],
                         StaticImage("loading"))
                EXCEPT !.lastDisplayedImageState = StaticKey("loading")])
  /\ UNCHANGED <<rot, dd, fn>>

AvOnWillDisappear ==
  /\ av.visible
  /\ av' = [AvClearInterval(AvTurn(av, "onWillDisappear", "")) EXCEPT !.visible = FALSE]
  /\ UNCHANGED <<rot, dd, fn>>

\* A settings change that clears one cache shared by all sessions.
AvOnDidReceiveSettingsSharedCache(env) ==
  /\ av.visible
  /\ av.changes < MaxSettingsChanges
  /\ \E settings \in env.settings :
       av' = AvStartPolling(
               [AvTurn(av, "onDidReceiveSettings", "") EXCEPT
                  !.settings = settings,
                  !.avatarCache = EmptyCache,
                  !.lastDisplayedImageState = NullKey,
                  !.changes = @ + 1])
  /\ rot' = [rot EXCEPT !.avatarCache = EmptyCache]
  /\ UNCHANGED <<dd, fn>>

AvOnDidReceiveSettings(env) ==
  /\ av.visible
  /\ av.changes < MaxSettingsChanges
  /\ Len(av.fetches) < MaxPollsInFlight
  /\ av.orphanIntervals < MaxOrphanIntervals
  /\ \E settings \in env.settings :
       av' = AvStartPolling(
               [AvTurn(av, "onDidReceiveSettings", "") EXCEPT
                  !.settings = settings,
                  !.avatarCache = EmptyCache,
                  !.lastDisplayedImageState = NullKey,
                  !.changes = @ + 1])
  /\ UNCHANGED <<rot, dd, fn>>

\* The callback of a poll timer, whether this.interval still holds it or not
AvPollTick ==
  /\ av.interval \/ av.orphanIntervals > 0
  /\ Len(av.fetches) < MaxPollsInFlight
  /\ av' = AvFetchData(AvTurn(av, "pollTick", ""), "interval")
  /\ UNCHANGED <<rot, dd, fn>>

\* fetchData behind the avatar request, up to the messages request
AvAvatarArrives(env) ==
  /\ \E i \in 1..Len(av.fetches), outcome \in env.avatarOutcomes :
       LET f == av.fetches[i]
           a == [AvTurn(av, "avatarArrives", outcome) EXCEPT
                   !.fetches = RemoveAt(@, i), !.op.avatar = outcome]
           g == FetchData("messages", f.email, f.caller, outcome, Null, 0, NullKey)
           image == IF outcome = "ok" THEN FetchedImage(f.email) ELSE GarbageImage(f.email)
       IN /\ f.stage = "avatar"
          /\ av' = IF outcome = "throw"
                   THEN AvFetchDataFails(a, f.caller)
                   ELSE IF outcome = "http"
                   THEN [a EXCEPT !.fetches = Append(@, g)]
                   ELSE [a EXCEPT !.avatarImage = image,
                                  !.avatarCache = CacheSet(@, f.email, image),
                                  !.fetches = Append(@, g)]
  /\ UNCHANGED <<rot, dd, fn>>

\* fetchData behind the messages request, up to the await in updateDisplay.
\* Outcomes: the request fails ("throw"), a non-2xx answer ("http"), a 200
\* answer with an array of n messages ("ok"), with JSON that is no array
\* ("notArray"), with a body that is no JSON ("notJson": response.json()
\* rejects).
AvMessagesArrive(env) ==
  /\ \E i \in 1..Len(av.fetches), outcome \in env.messagesOutcomes :
       \E n \in (IF outcome = "ok" THEN env.counts ELSE {0}) :
         LET f == av.fetches[i]
             a == [AvTurn(av, "messagesArrive", outcome) EXCEPT
                     !.fetches = RemoveAt(@, i), !.op.avatar = f.avatar,
                     !.op.length = n]
         IN /\ f.stage = "messages"
            /\ av' = IF outcome \in {"throw", "notJson"}
                     THEN AvFetchDataFails(a, f.caller)
                     ELSE IF outcome = "http"
                     THEN AvUpdateDisplay(a, f)
                     ELSE AvUpdateDisplay([a EXCEPT !.unreadCount = n], f)
  /\ UNCHANGED <<rot, dd, fn>>

\* updateDisplay behind overlayCountOnImage, then the end of fetchData
AvOverlayDrawn ==
  /\ \E i \in 1..Len(av.fetches) :
       LET f == av.fetches[i]
           a == [AvTurn(av, "overlayDrawn", IF f.image.src = "garbage" THEN "throw" ELSE "ok")
                   EXCEPT !.fetches = RemoveAt(@, i), !.op.avatar = f.avatar]
       IN /\ f.stage = "overlay"
          /\ av' = IF f.image.src = "garbage"
                   THEN AvFetchDataFails(a, f.caller)
                   ELSE AvFetchDataReturns(
                          AvSetImageIfChanged(a, overlayCountOnImage(f.image, f.count),
                                              f.stateKey), f.caller)
  /\ UNCHANGED <<rot, dd, fn>>

\* The property inspector sends a test only when both URLs are filled in.
TestPayloads == {Settings(TRUE, TRUE, FALSE, FALSE)}

TestOutcomes == {"ok", "http", "throw"}

\* onSendToPlugin with payload.event = 'testConnection'
onSendToPlugin ==
  /\ rot.visible
  /\ rot.tests + rot.reverts < MaxTests
  /\ \E payload \in TestPayloads :
       rot' = testConnection(Turn(rot, "testConnection", ""), payload)
  /\ UNCHANGED <<dd, av, fn>>

\* The test fetch of the rotating webhook is answered, or fails.
TestAnswers ==
  /\ rot.tests > 0
  /\ \E outcome \in TestOutcomes :
       rot' = testConnectionAnswered(Turn(rot, "testAnswers", outcome), outcome)
  /\ UNCHANGED <<dd, av, fn>>

\* The 2000 ms timeout of a test fires.
TestRevert ==
  /\ rot.reverts > 0
  /\ rot' = updateDisplay([Turn(rot, "testRevert", "") EXCEPT !.reverts = @ - 1])
  /\ UNCHANGED <<dd, av, fn>>

\* main.js, onGlobalSettingsReceived: startPolling on every active instance
onGlobalSettingsReceived ==
  /\ rot.visible
  /\ av.visible
  /\ PollLoad(rot) < MaxPollsInFlight
  /\ Len(av.fetches) < MaxPollsInFlight
  /\ av.orphanIntervals < MaxOrphanIntervals
  /\ rot' = startPolling(Turn(rot, "onGlobalSettingsReceived", ""))
  /\ av' = AvStartPolling(AvTurn(av, "onGlobalSettingsReceived", ""))
  /\ UNCHANGED <<dd, fn>>

(***************************************************************************)
(* The dedup guard driven by arbitrary callers.                            *)
(***************************************************************************)
DedupKeys ==
  { StaticKey("error"), StaticKey("noUsers"), AvatarKey(U1(5), 0), AvatarKey(B1(3), 1) }

DedupImages ==
  { StaticImage("error"), StaticImage("noUsers"),
    overlayCountOnImage(FetchedImage(U1(5).userId), 5) }

\* A caller's setImageIfChanged(context, image, stateKey)
DedupCall ==
  /\ \E stateKey \in DedupKeys, image \in DedupImages :
       LET st == setImageIfChanged([dd EXCEPT !.writes = 0], image, stateKey)
       IN dd' = [st EXCEPT !.prev = dd.last,
                           !.last = [key |-> stateKey,
                                     before |-> dd.lastDisplayedState,
                                     writes |-> st.writes]]
  /\ UNCHANGED <<rot, av, fn>>

\* A write that bypasses the guard: playTransition with its first frame,
\* onWillAppear with the loading image
DedupOtherWrite ==
  /\ \E kind \in {"transitioning", "loading"} :
       dd' = [setImage([dd EXCEPT !.writes = 0, !.lastDisplayedState = StaticKey(kind)],
                       StaticImage(kind))
                EXCEPT !.prev = NoCall, !.last = NoCall]
  /\ UNCHANGED <<rot, av, fn>>

\* The reset of onDidReceiveSettings
DedupReset ==
  /\ dd' = [dd EXCEPT !.lastDisplayedState = NullKey, !.writes = 0,
                      !.prev = NoCall, !.last = NoCall]
  /\ UNCHANGED <<rot, av, fn>>

(***************************************************************************)
(* Specifications.  The instant world has the animation disabled and every *)
(* webhook answer; the animated world has the crossfade enabled.           *)
(***************************************************************************)
InstantWorld ==
  Environment({Settings(TRUE, TRUE, TRUE, TRUE), Settings(TRUE, FALSE, TRUE, FALSE)},
              RosterResponses, RosterOutcomes, AvatarOutcomes, {"resolve"})

AnimatedWorld ==
  Environment({Settings(TRUE, TRUE, FALSE, TRUE)},
              {<<B1(3), U1(5)>>, << >>}, {"ok"}, {"ok"}, {})

SettingsWorld ==
  Environment({Settings(TRUE, TRUE, TRUE, TRUE)},
              {<<B1(3), U1(5)>>}, {"ok"}, {"ok"}, {})

InitInstant == InitIn(InstantWorld)

InstantRoster == RosterArrives(InstantWorld)

InstantCurrentAvatar == CurrentAvatarArrives(InstantWorld)

InstantNextAvatar == NextAvatarArrives(InstantWorld)

NextInstant ==
  \/ onWillAppear
  \/ onWillDisappear
  \/ onKeyUp
  \/ PollTick
  \/ CarouselTick
  \/ InstantRoster
  \/ InstantCurrentAvatar
  \/ InstantNextAvatar

SpecInstant == InitInstant /\ [][NextInstant]_vars

Init == InitIn(AnimatedWorld)

AnimatedRoster == RosterArrives(AnimatedWorld)

AnimatedCurrentAvatar == CurrentAvatarArrives(AnimatedWorld)

AnimatedNextAvatar == NextAvatarArrives(AnimatedWorld)

Next ==
  \/ onWillAppear
  \/ onWillDisappear
  \/ onKeyUp
  \/ PollTick
  \/ CarouselTick
  \/ FrameTick
  \/ SafetyTimeout
  \/ AnimatedRoster
  \/ AnimatedCurrentAvatar
  \/ AnimatedNextAvatar
  \/ ImageLoaded

Spec == Init /\ [][Next]_vars

InitSettings == InitIn(SettingsWorld)

SettingsChange == onDidReceiveSettings(SettingsWorld)

SettingsRoster == RosterArrives(SettingsWorld)

SettingsCurrentAvatar == CurrentAvatarArrives(SettingsWorld)

SettingsNextAvatar == NextAvatarArrives(SettingsWorld)

NextSettings ==
  \/ onWillAppear
  \/ SettingsChange
  \/ PollTick
  \/ CarouselTick
  \/ SettingsRoster
  \/ SettingsCurrentAvatar
  \/ SettingsNextAvatar

SpecSettings == InitSettings /\ [][NextSettings]_vars

InitDedup == InitIn(SettingsWorld)

NextDedup ==
  \/ DedupCall
  \/ DedupOtherWrite
  \/ DedupReset

SpecDedup == InitDedup /\ [][NextDedup]_vars

\* The single-avatar world: every answer of both webhooks.
AvatarWorld ==
  AvatarEnvironment({AvatarSettings(EmailB, TRUE, TRUE)},
                    AvatarOutcomes, MessagesOutcomes, {0, 2})

InitAvatar == InitIn(SettingsWorld)

AvatarSettingsChange == AvOnDidReceiveSettings(AvatarWorld)

AvatarAvatarArrives == AvAvatarArrives(AvatarWorld)

AvatarMessagesArrive == AvMessagesArrive(AvatarWorld)

NextAvatar ==
  \/ AvOnWillAppear
  \/ AvOnWillDisappear
  \/ AvatarSettingsChange
  \/ AvPollTick
  \/ AvatarAvatarArrives
  \/ AvatarMessagesArrive
  \/ AvOverlayDrawn

SpecAvatar == InitAvatar /\ [][NextAvatar]_vars

\* The crossfade on the device: the animated session over a roster of two,
\* with the image and the title on the device recorded.
PlaybackWorld ==
  Environment({Settings(TRUE, TRUE, FALSE, TRUE)}, {<<B1(3), U1(5)>>},
              {"ok"}, {"ok"}, {"display"})

InitPlayback == InitIn(PlaybackWorld)

PlaybackRoster == RosterArrives(PlaybackWorld)

PlaybackCurrentAvatar == CurrentAvatarArrives(PlaybackWorld)

PlaybackNextAvatar == NextAvatarArrives(PlaybackWorld)

NextPlayback ==
  \/ onWillAppear
  \/ onWillDisappear
  \/ onKeyUp
  \/ PollTick
  \/ CarouselTick
  \/ FrameTick
  \/ SafetyTimeout
  \/ PlaybackRoster
  \/ PlaybackCurrentAvatar
  \/ PlaybackNextAvatar
  \/ ImageLoaded

SpecPlayback == InitPlayback /\ [][NextPlayback]_vars

\* The single-avatar session under one configuration: every kind of answer
\* of the avatar and of the messages webhook, no settings change.
MessagesWorld ==
  AvatarEnvironment({AvatarSettings(EmailA, TRUE, TRUE)}, AvatarOutcomes,
                    {"ok", "http", "notArray", "notJson"}, {0, 2})

InitMessages == InitIn(SettingsWorld)

MessagesAvatarArrives == AvAvatarArrives(MessagesWorld)

MessagesMessagesArrive == AvMessagesArrive(MessagesWorld)

NextMessages ==
  \/ AvOnWillAppear
  \/ AvOnWillDisappear
  \/ AvPollTick
  \/ MessagesAvatarArrives
  \/ MessagesMessagesArrive
  \/ AvOverlayDrawn

SpecMessages == InitMessages /\ [][NextMessages]_vars

\* Two sessions side by side: a rotating one over a roster of one user and
\* a single-avatar one, both with webhooks that answer well and sooner than
\* the next poll of the same session is due: a session is shown, polled,
\* reconfigured or restarted by the global notification only while it awaits
\* no answer of its own.  Key presses, carousel ticks and teardown come at
\* any time, and every step of one session may fall in the middle of the
\* other session's fetches.
SessionsRotatingWorld ==
  Environment({Settings(TRUE, FALSE, TRUE, TRUE)}, {<<U1(5)>>}, {"ok"}, {"ok"}, {})

SessionsAvatarWorld ==
  AvatarEnvironment({AvatarSettings(EmailB, TRUE, TRUE)}, {"ok"}, {"ok"}, {2})

InitSessions == InitIn(SessionsRotatingWorld)

RotatingAwaitsNothing == PollLoad(rot) + Len(rot.nextFetches) = 0

AvatarAwaitsNothing == av.fetches = << >>

SessionsRotatingAppears == RotatingAwaitsNothing /\ onWillAppear

SessionsRotatingPollTick == RotatingAwaitsNothing /\ PollTick

SessionsAvatarAppears == AvatarAwaitsNothing /\ AvOnWillAppear

SessionsAvatarPollTick == AvatarAwaitsNothing /\ AvPollTick

SessionsGlobalSettings ==
  RotatingAwaitsNothing /\ AvatarAwaitsNothing /\ onGlobalSettingsReceived

SessionsRotatingSettingsChange ==
  PollLoad(rot) = 0 /\ onDidReceiveSettings(SessionsRotatingWorld)

SessionsRoster == RosterArrives(SessionsRotatingWorld)

SessionsCurrentAvatar == CurrentAvatarArrives(SessionsRotatingWorld)

SessionsNextAvatar == NextAvatarArrives(SessionsRotatingWorld)

SessionsAvatarSettingsChange ==
  av.fetches = << >> /\ AvOnDidReceiveSettings(SessionsAvatarWorld)

SessionsAvatarArrives == AvAvatarArrives(SessionsAvatarWorld)

SessionsMessagesArrive == AvMessagesArrive(SessionsAvatarWorld)

NextSessions ==
  \/ SessionsRotatingAppears
  \/ onWillDisappear
  \/ SessionsRotatingSettingsChange
  \/ onKeyUp
  \/ SessionsRotatingPollTick
  \/ CarouselTick
  \/ SessionsRoster
  \/ SessionsCurrentAvatar
  \/ SessionsNextAvatar
  \/ SessionsAvatarAppears
  \/ AvOnWillDisappear
  \/ SessionsAvatarSettingsChange
  \/ SessionsAvatarPollTick
  \/ SessionsAvatarArrives
  \/ SessionsMessagesArrive
  \/ AvOverlayDrawn
  \/ SessionsGlobalSettings

SpecSessions == InitSessions /\ [][NextSessions]_vars

\* Incomplete configurations: the rotating session with and without its
\* webhook URL, the single-avatar session with each of its three settings
\* missing in turn, and the settings changes that supply or remove them.
ConfigRotatingWorld ==
  Environment({Settings(FALSE, TRUE, TRUE, FALSE), Settings(TRUE, TRUE, TRUE, FALSE)},
              {<<U1(5)>>}, {"ok"}, {"ok"}, {"display"})

ConfigAvatarWorld ==
  AvatarEnvironment({AvatarSettings(<< >>, TRUE, TRUE), AvatarSettings(EmailA, FALSE, TRUE),
                     AvatarSettings(EmailA, TRUE, FALSE), AvatarSettings(EmailA, TRUE, TRUE)},
                    {"ok"}, {"ok"}, {2})

InitConfig ==
  /\ \E settings \in ConfigRotatingWorld.settings :
       rot = RotInit(settings, ConfigRotatingWorld.watch)
  /\ \E settings \in ConfigAvatarWorld.settings : av = AvInit(settings)
  /\ dd = DdInit
  /\ fn = FnInit

ConfigRotatingSettingsChange ==
  PollLoad(rot) = 0 /\ onDidReceiveSettings(ConfigRotatingWorld)

ConfigRoster == RosterArrives(ConfigRotatingWorld)

ConfigCurrentAvatar == CurrentAvatarArrives(ConfigRotatingWorld)

ConfigNextAvatar == NextAvatarArrives(ConfigRotatingWorld)

ConfigAvatarSettingsChange ==
  av.fetches = << >> /\ AvOnDidReceiveSettings(ConfigAvatarWorld)

ConfigAvatarArrives == AvAvatarArrives(ConfigAvatarWorld)

ConfigMessagesArrive == AvMessagesArrive(ConfigAvatarWorld)

NextConfig ==
  \/ SessionsRotatingAppears
  \/ ConfigRotatingSettingsChange
  \/ SessionsRotatingPollTick
  \/ CarouselTick
  \/ ConfigRoster
  \/ ConfigCurrentAvatar
  \/ ConfigNextAvatar
  \/ SessionsAvatarAppears
  \/ ConfigAvatarSettingsChange
  \/ SessionsAvatarPollTick
  \/ ConfigAvatarArrives
  \/ ConfigMessagesArrive
  \/ AvOverlayDrawn

SpecConfig == InitConfig /\ [][NextConfig]_vars

\* Roster polls that fail: an animated session whose roster requests succeed,
\* throw, come back non-2xx or come back with a body that is no array.
FailureWorld ==
  Environment({Settings(TRUE, TRUE, FALSE, FALSE)}, {<<B1(3), U1(5)>>},
              RosterOutcomes, {"ok"}, {"display"})

InitFailure == InitIn(FailureWorld)

FailureRoster == RosterArrives(FailureWorld)

FailureCurrentAvatar == CurrentAvatarArrives(FailureWorld)

FailureNextAvatar == NextAvatarArrives(FailureWorld)

NextFailure ==
  \/ onWillAppear
  \/ PollTick
  \/ CarouselTick
  \/ FrameTick
  \/ SafetyTimeout
  \/ FailureRoster
  \/ FailureCurrentAvatar
  \/ FailureNextAvatar
  \/ ImageLoaded

SpecFailure == InitFailure /\ [][NextFailure]_vars

\* A roster with an entry the code cannot draw: a bot whose displayName is a
\* number.  Instant session, every answer of the avatar webhook.
MalformedWorld ==
  Environment({Settings(TRUE, TRUE, TRUE, FALSE)},
              {<<B2(3), U1(5)>>, <<U1(5), B1(3)>>}, {"ok"}, AvatarOutcomes, {})

InitMalformed == InitIn(MalformedWorld)

MalformedRoster == RosterArrives(MalformedWorld)

MalformedCurrentAvatar == CurrentAvatarArrives(MalformedWorld)

MalformedNextAvatar == NextAvatarArrives(MalformedWorld)

NextMalformed ==
  \/ onWillAppear
  \/ onKeyUp
  \/ PollTick
  \/ CarouselTick
  \/ MalformedRoster
  \/ MalformedCurrentAvatar
  \/ MalformedNextAvatar

SpecMalformed == InitMalformed /\ [][NextMalformed]_vars

\* Transitions that are interrupted: the animated session with teardown,
\* settings changes and key presses while frames are generated or played.
TransitionWorld ==
  Environment({Settings(TRUE, TRUE, FALSE, FALSE)}, {<<B1(3), U1(5)>>},
              {"ok"}, {"ok"}, {})

InitTransition == InitIn(TransitionWorld)

\* The button is shown once; it is torn down, or its settings are changed,
\* while a transition is under way (the settings while no request is
\* outstanding).  The frame timer runs for one second: no carousel tick and
\* no webhook answer falls into that time.
TransitionAppears == rot.op = NoOp /\ onWillAppear

TransitionTeardown == rot.isTransitioning /\ onWillDisappear

TransitionSettingsChange ==
  /\ rot.isTransitioning
  /\ PollLoad(rot) + Len(rot.nextFetches) = 0
  /\ onDidReceiveSettings(TransitionWorld)

TransitionCarouselTick == ~rot.transitionInterval /\ CarouselTick

TransitionRoster == ~rot.transitionInterval /\ RosterArrives(TransitionWorld)

TransitionCurrentAvatar == ~rot.transitionInterval /\ CurrentAvatarArrives(TransitionWorld)

TransitionNextAvatar == ~rot.transitionInterval /\ NextAvatarArrives(TransitionWorld)

NextTransition ==
  \/ TransitionAppears
  \/ TransitionTeardown
  \/ TransitionSettingsChange
  \/ TransitionCarouselTick
  \/ FrameTick
  \/ SafetyTimeout
  \/ TransitionRoster
  \/ TransitionCurrentAvatar
  \/ TransitionNextAvatar
  \/ ImageLoaded

SpecTransition == InitTransition /\ [][NextTransition]_vars

\* Timers that are scheduled fire and image loads that were started end.
\* FrameTick, SafetyTimeout and ImageLoaded are weakly fair, written out as
\* "infinitely often not pending or infinitely often taken": the frame timer
\* is pending exactly when FrameTick is enabled, a safety timeout exactly when
\* SafetyTimeout is, a load exactly when ImageLoaded is, and a step is theirs
\* exactly when it leaves their name in op.
FramePending == rot.transitionInterval

FrameFires == rot'.op.name = "frameTick"

SafetyPending == rot.ownSafety \/ rot.staleSafety > 0

LoadPending == rot.frameGens # << >>

SafetyFires == rot'.op.name = "safetyTimeout"

LoadEnds == rot'.op.name = "imageLoaded"

SpecTransitionFair ==
  /\ SpecTransition
  /\ []<>(~FramePending) \/ []<><<FrameFires>>_vars
  /\ []<>(~SafetyPending) \/ []<><<SafetyFires>>_vars
  /\ []<>(~LoadPending) \/ []<><<LoadEnds>>_vars

\* What is on the device: sessions with and without the title option, over
\* rosters of one user and of none; the image and the title are recorded.
TestWorld ==
  Environment({Settings(TRUE, TRUE, TRUE, TRUE), Settings(TRUE, TRUE, TRUE, FALSE)},
              {<<U1(5)>>, << >>}, {"ok"}, {"ok"}, {"display"})

InitTest == InitIn(TestWorld)

TestRoster == RosterArrives(TestWorld)

TestCurrentAvatar == CurrentAvatarArrives(TestWorld)

TestNextAvatar == NextAvatarArrives(TestWorld)

NextTest ==
  \/ onWillAppear
  \/ onWillDisappear
  \/ PollTick
  \/ CarouselTick
  \/ TestRoster
  \/ TestCurrentAvatar
  \/ TestNextAvatar
  \/ onSendToPlugin
  \/ TestAnswers
  \/ TestRevert

SpecTest == InitTest /\ [][NextTest]_vars

\* The same device with settings changes in place of connectivity tests.
TitleWorld == TestWorld

InitTitle == InitIn(TitleWorld)

TitleSettingsChange == onDidReceiveSettings(TitleWorld)

TitleRoster == RosterArrives(TitleWorld)

TitleCurrentAvatar == CurrentAvatarArrives(TitleWorld)

TitleNextAvatar == NextAvatarArrives(TitleWorld)

NextTitle ==
  \/ onWillAppear
  \/ TitleSettingsChange
  \/ onKeyUp
  \/ PollTick
  \/ CarouselTick
  \/ TitleRoster
  \/ TitleCurrentAvatar
  \/ TitleNextAvatar

SpecTitle == InitTitle /\ [][NextTitle]_vars

(***************************************************************************)
(* The pure parts on their own: each action applies one of them to inputs  *)
(* drawn from a bounded set and records the call in fn.                    *)
(***************************************************************************)
Digits == <<"1", "2", "3", "4", "5", "6", "7", "8", "9">>

SortCounts == {NoCount, 0, 1, 3, 7}

\* Response bodies of up to MaxRoster entries with distinct userIds.
SortInputs ==
  UNION { [1..n -> SortCounts] : n \in 0..MaxRoster }

RosterOf(counts) ==
  [i \in 1..Len(counts) |-> Entry(<<"u", Digits[i]>>, << >>, counts[i], "user")]

\* A successful poll of a new session: this.users as fetchUsersData stores it
SortCall ==
  /\ fn = FnInit
  /\ \E counts \in SortInputs :
       fn' = FnCall("sort", RosterOf(counts),
                    RosterReceived(RotInit(Settings(TRUE, FALSE, TRUE, FALSE), {}),
                                   "ok", RosterOf(counts)).users)
  /\ UNCHANGED <<rot, dd, av>>

\* Display names: every string of up to MaxName characters over a small
\* alphabet, and the names of the repository's own test cases.
NameAlphabet == {"a", "B", " ", "1"}

NameInputs ==
  UNION { [1..n -> NameAlphabet] : n \in 0..MaxName }
  \cup { Workflows,
         <<"A", "l", "i", "c", "e">>,
         <<"J", "o", "h", "n", " ", "D", "o", "e">>,
         <<"B", "o", "b", " ", "J", "o", "h", "n", "s", "o", "n", " ",
           "W", "i", "l", "l", "i", "a", "m", "s">>,
         <<"u", "s", "e", "r", "@", "c", "o", "m", "p", "a", "n", "y", ".", "c", "o", "m">> }

\* generateInitialsImage(displayName, defaultInitials): the text it draws
InitialsCall ==
  /\ fn = FnInit
  /\ \E displayName \in NameInputs, defaultInitials \in {NoInitials, <<"W", "F">>} :
       fn' = FnCall("initials", <<displayName, defaultInitials>>,
                    generateInitialsImage(displayName, defaultInitials).text)
  /\ UNCHANGED <<rot, dd, av>>

\* generateInitialsImage(displayName, defaultInitials): the background
\* colour it fills the canvas with
ColorNames ==
  { n \in NameInputs : Len(n) <= MaxHashed } \cup
  { SubSeq(Workflows \o <<" ">> \o U1(0).displayName, w[1], w[2]) :
       w \in { v \in (1..17) \X (1..17) : v[2] < v[1] + MaxHashed } }

ColorCall ==
  /\ fn = FnInit
  /\ \E displayName \in ColorNames :
       fn' = FnCall("color", displayName,
                    [hash |-> hash(displayName),
                     index |-> colorIndex(hash(displayName)),
                     backgroundColor |-> backgroundColor(displayName)])
  /\ UNCHANGED <<rot, dd, av>>

\* getDominantColor.  ImageData is width, height and data, the RGBA bytes
\* of the pixels row by row, four per pixel, indexed from 0.
ImageData(width, height, data) == [width |-> width, height |-> height, data |-> data]

step == 8

\* Math.floor(c/32)*32
Quantize(c) == (c \div 32) * 32

\* The key of a colour bucket; the string of three numbers the code joins
\* with commas and parses back is kept as the three numbers.
ColorKey(r, g, b) == <<Quantize(r), Quantize(g), Quantize(b)>>

\* The values of (y * width + x) * 4 in the order the two loops visit them
SampledIndices(width, height) ==
  LET cols == (width + step - 1) \div step
      rows == (height + step - 1) \div step
  IN [k \in 1..(cols * rows) |->
        ((((k - 1) \div cols) * step) * width + ((k - 1) % cols) * step) * 4]

\* colorCount[key] = (colorCount[key] || 0) + 1
Counted(colorCount, key) ==
  [c \in DOMAIN colorCount \cup {key} |->
     IF c = key
     THEN (IF key \in DOMAIN colorCount THEN colorCount[key] ELSE 0) + 1
     ELSE colorCount[c]]

\* A test that lets a bucket that draws level take the lead
IsNewMaximumOrTie(count, maxCount) == count >= maxCount

\* if (colorCount[key] > maxCount)
IsNewMaximum(count, maxCount) == count > maxCount

RECURSIVE SamplePixels(_, _, _)
SamplePixels(data, indices, acc) ==
  IF indices = << >>
  THEN acc
  ELSE LET index == Head(indices)
           alpha == data[index + 3]
           key == ColorKey(data[index], data[index + 1], data[index + 2])
           colorCount == Counted(acc.colorCount, key)
       IN IF alpha < 128
          THEN SamplePixels(data, Tail(indices), acc)
          ELSE SamplePixels(data, Tail(indices),
                 IF IsNewMaximum(colorCount[key], acc.maxCount)
                 THEN [colorCount |-> colorCount, maxCount |-> colorCount[key],
                       dominantColor |-> key]
                 ELSE [acc EXCEPT !.colorCount = colorCount])

getDominantColor(imageData) ==
  SamplePixels(imageData.data, SampledIndices(imageData.width, imageData.height),
               [colorCount |-> << >>, maxCount |-> 0,
                dominantColor |-> <<128, 128, 128>>]).dominantColor

\* Pixels for the images analysed: two reds of one bucket, the second at the
\* alpha that still counts, a blue, a green just too transparent to count,
\* and the white every pixel off the sampling grid has.
Red == <<200, 10, 10, 255>>

Crimson == <<220, 30, 5, 128>>

Blue == <<0, 0, 255, 255>>

Clear == <<0, 255, 0, 127>>

White == <<255, 255, 255, 255>>

MaxSamples == 4

SampleCount(width, height) ==
  ((width + step - 1) \div step) * ((height + step - 1) \div step)

ImageSizes ==
  {size \in {1, 8, 9, 17, 25, 33} \X {1, 9} : SampleCount(size[1], size[2]) <= MaxSamples}

\* The image of the given size whose pixels on the sampling grid are the
\* given ones, row by row, all others white
Pixels(width, height, samples) ==
  ImageData(width, height,
    [i \in 0..(4 * width * height - 1) |->
       LET x == (i \div 4) % width
           y == (i \div 4) \div width
           pixel == IF x % step = 0 /\ y % step = 0
                    THEN samples[(y \div step) * ((width + step - 1) \div step)
                                 + (x \div step) + 1]
                    ELSE White
       IN pixel[(i % 4) + 1]])

DominantCall ==
  /\ fn = FnInit
  /\ \E size \in ImageSizes :
       \E samples \in [1..SampleCount(size[1], size[2]) -> {Red, Crimson, Blue, Clear}] :
         LET imageData == Pixels(size[1], size[2], samples)
         IN fn' = FnCall("dominant", imageData, getDominantColor(imageData))
  /\ UNCHANGED <<rot, dd, av>>

\* An avatar resolution that missed the cache, from the entry to its image
ResolveCall ==
  /\ fn = FnInit
  /\ \E displayName \in {Workflows, <<"a", " ", "B">>, << >>},
        fromType \in {"user", "bot"}, avatarUrl \in BOOLEAN, outcome \in AvatarOutcomes :
       LET user == Entry(<<"u", "1">>, displayName, 3, fromType)
           st == RotInit(Settings(TRUE, avatarUrl, TRUE, FALSE), {})
       IN fn' = FnCall("resolve", <<user, Branch(st, user), outcome>>,
                       ResolvedImage(user, Branch(st, user), outcome))
  /\ UNCHANGED <<rot, dd, av>>

OverlayImages ==
  { FetchedImage(<<"u", "1">>), StaticImage("noUsers"),
    generateInitialsImage(<<"a", " ", "B">>, NoInitials),
    overlayCountOnImage(FetchedImage(<<"u", "1">>), 0),
    overlayCountOnImage(FetchedImage(<<"u", "1">>), 5) }

\* overlayCountOnImage(imageDataUrl, count)
OverlayCall ==
  /\ fn = FnInit
  /\ \E img \in OverlayImages, count \in {0, 1, 5} :
       fn' = FnCall("overlay", <<img, count>>, overlayCountOnImage(img, count))
  /\ UNCHANGED <<rot, dd, av>>

\* The call returns; the next one can be made.
FnReturn ==
  /\ fn # FnInit
  /\ fn' = FnInit
  /\ UNCHANGED <<rot, dd, av>>

InitPure == InitIn(SettingsWorld)

NextPure ==
  \/ SortCall
  \/ InitialsCall
  \/ ColorCall
  \/ DominantCall
  \/ ResolveCall
  \/ OverlayCall
  \/ FnReturn

SpecPure == InitPure /\ [][NextPure]_vars

(***************************************************************************)
(* Properties.                                                             *)
(***************************************************************************)
Resolutions == {e \in rot.log : e.t = "resolve"}

Completed(name) == rot.op.name = name

AvatarFailures == {"http", "badBody", "throw"}

\* C1 as stated: of the avatar resolutions of one (userId, count), begun by
\* prefetchCurrentAvatar or prefetchNextAvatar with no settings change in
\* between, only the first fetches or synthesizes, every later one is served
\* from the cache - also when the earlier one is still at an await.
C1_OnlyFirstWorks ==
  \A e \in Resolutions : e.seen => e.work = "hit"

\* C1 amended: a resolution begun after an earlier resolution of the same
\* (userId, count) has completed, with no settings change in between, does no
\* fetch and no synthesis: it is served from the cache.
C1_CachedOnceCompleted ==
  \A e \in Resolutions : e.done => e.work = "hit"

C1_Witness ==
  \E e \in Resolutions : e.done /\ e.work = "hit" /\ e.who = "current"

\* C2: a successful roster poll leaves currentUserIndex at the position the
\* previously current userId has in the new, sorted roster, and at 0 when
\* that userId is not in it or there was no current entry.
C2_ReAnchoring ==
  [][(rot'.op.name = "rosterArrives" /\ rot'.op.arg = "ok") =>
       LET previous == UserAt(rot.users, rot.currentUserIndex)
           positions == {i \in 1..Len(rot'.users) :
                           rot'.users[i].userId = previous.userId}
       IN IF previous # Undefined /\ positions # {}
          THEN rot'.currentUserIndex + 1 \in positions
          ELSE rot'.currentUserIndex = 0]_vars

C2_Witness ==
  /\ Completed("rosterArrives")
  /\ rot.op.arg = "ok"
  /\ rot.currentUserIndex = 1
  /\ Len(rot.users) = 2

Forced(st) == st.op.name = "safetyTimeout" /\ st.op.arg = "force"

\* C3 as stated: the forced completion of a stalled transition leaves
\* isTransitioning false and the session on the next user: currentUserIndex
\* advanced by one, nextAvatarImage promoted to currentAvatarImage.
C3_ForcedMovesOn ==
  [][Forced(rot') =>
       /\ ~rot'.isTransitioning
       /\ rot'.currentUserIndex = NextIndex(rot.currentUserIndex, Len(rot.users))
       /\ rot'.currentAvatarImage = rot.nextAvatarImage]_vars

\* C3 amended: playTransition arms a safety timeout together with the frame
\* timer; when it fires during a transition the completion is forced:
\* isTransitioning is false, the frame timer is cancelled and the frames are
\* discarded, but the session stays on the current user - currentUserIndex
\* and the roster are unchanged and a currentAvatarImage that is set is kept.
C3_ForcedStaysOnCurrent ==
  [][/\ (rot'.op.name = "imageLoaded" /\ rot'.op.arg = "frames") =>
          rot'.ownSafety /\ rot'.transitionInterval
     /\ Forced(rot') =>
          /\ rot.isTransitioning
          /\ ~rot'.isTransitioning
          /\ ~rot'.transitionInterval
          /\ rot'.transitionFrames = << >>
          /\ rot'.currentUserIndex = rot.currentUserIndex
          /\ rot'.users = rot.users
          /\ rot.currentAvatarImage # Null =>
               rot'.currentAvatarImage = rot.currentAvatarImage]_vars

C3_Witness ==
  /\ Forced(rot)
  /\ Len(rot.users) = 2
  /\ rot.currentAvatarImage # Null
  /\ ~rot.isTransitioning

C5_TimersCancelled ==
  /\ (Completed("onWillDisappear") \/ Completed("onDidReceiveSettings")) =>
       ~rot.ownSafety /\ rot.staleSafety = 0
  /\ Completed("onWillDisappear") =>
       /\ ~rot.pollingInterval
       /\ rot.carouselInterval = "null"
       /\ ~rot.transitionInterval

\* C6: at most one next-avatar resolution, one current-avatar resolution and
\* one transition are in progress at any time.
C6_OneInFlight ==
  /\ Len(rot.nextFetches) <= 1
  /\ Len(rot.currentFetches) <= 1
  /\ Len(rot.frameGens) + (IF rot.transitionInterval THEN 1 ELSE 0) <= 1

\* C7: when playback finishes, completeTransition cancels the safety timeout
\* and the frame timer, clears isTransitioning, advances currentUserIndex to
\* (currentUserIndex + 1) mod |users|, promotes nextAvatarImage, empties the
\* frames and starts the prefetch of the new next index.
C7_NormalCompletion ==
  [][(rot'.op.name = "frameTick" /\ rot'.op.arg = "complete") =>
       /\ ~rot'.ownSafety
       /\ ~rot'.transitionInterval
       /\ ~rot'.isTransitioning
       /\ Len(rot.users) > 0
       /\ rot'.currentUserIndex = (rot.currentUserIndex + 1) % Len(rot.users)
       /\ rot'.currentAvatarImage = rot.nextAvatarImage
       /\ rot'.transitionFrames = << >>
       /\ rot'.isFetchingNext \/ rot'.nextAvatarImage # Null]_vars

\* The image slot and flag a completed resolution worked on.
SlotImage == IF Completed("nextAvatarArrives") THEN rot.nextAvatarImage
             ELSE rot.currentAvatarImage

SlotBusy == IF Completed("nextAvatarArrives") THEN rot.isFetchingNext
            ELSE rot.isFetchingCurrent

Arrived == Completed("nextAvatarArrives") \/ Completed("currentAvatarArrives")

\* C8: when the avatar request answers non-2xx, throws or delivers a body
\* that is no image, the resolution still completes: with an initials image
\* carrying the count, stored in the cache under userId_count, the in-flight
\* flag released and, for the poll that awaited it, no error shown.
C8_FailureFallsBack ==
  (Arrived /\ rot.op.arg \in AvatarFailures) =>
    /\ SlotImage.src = "initials"
    /\ SlotImage.text # << >>
    /\ SlotImage.badge = rot.op.key[2]
    /\ rot.op.key \in DOMAIN rot.avatarCache
    /\ rot.avatarCache[rot.op.key] = SlotImage
    /\ ~SlotBusy
    /\ Completed("currentAvatarArrives") => rot.lastDisplayedState # StaticKey("error")

C8_Witness ==
  /\ Completed("currentAvatarArrives")
  /\ rot.op.arg = "http"
  /\ rot.op.key = CacheKey(U1(5))
  /\ rot.currentAvatarImage.src = "initials"

\* C9: a resolution sends a request to the avatar webhook only if its key is
\* not cached, its entry is no bot and an avatar webhook URL is set; a bot
\* and an entry resolved with no URL set are resolved by initials synthesis,
\* and whatever is cached is used first.
C9_DecisionChain ==
  /\ \A e \in Resolutions :
       /\ e.work = "fetch" => ~e.cached /\ ~e.bot /\ e.url
       /\ (~e.cached /\ (e.bot \/ ~e.url)) => e.work = "synth"
       /\ e.cached => e.work = "hit"
  /\ \A r \in {rot.nextFetches[i] : i \in 1..Len(rot.nextFetches)}
          \cup {rot.currentFetches[i] : i \in 1..Len(rot.currentFetches)} :
       r.branch = "fetch" => r.user.fromType # "bot" /\ rot.settings.avatarWebhookUrl
  /\ \A k \in DOMAIN rot.avatarCache :
       (k[1] = B1(0).userId \/ ~rot.settings.avatarWebhookUrl) =>
         rot.avatarCache[k].src = "initials"

C9_Witness ==
  /\ ~rot.settings.avatarWebhookUrl
  /\ {CacheKey(U1(5)), CacheKey(B1(3))} \subseteq DOMAIN rot.avatarCache
  /\ rot.avatarCache[CacheKey(U1(5))].src = "initials"
  /\ rot.avatarCache[CacheKey(B1(3))].src = "initials"

\* C10: a resolution that missed the cache stores its composite image under
\* userId_count when it completes, whatever branch it took, so the key is in
\* the cache with the image the resolution produced.
C10_BranchesPopulateCache ==
  Arrived =>
    /\ rot.op.key \in DOMAIN rot.avatarCache
    /\ rot.avatarCache[rot.op.key] = SlotImage
    /\ SlotImage # Null

C10_Witness ==
  /\ Completed("nextAvatarArrives")
  /\ rot.op.arg = "throw"
  /\ rot.op.key \in DOMAIN rot.avatarCache
  /\ rot.avatarCache[rot.op.key] = rot.nextAvatarImage

\* C11: the roster a successful poll stores holds the delivered entries
\* ordered non-increasing by count, a missing count counting as 0, and
\* entries of equal count in the order in which they were delivered.
C11_StableSortByCount ==
  fn.name = "sort" =>
    LET delivered == fn.input
        stored == fn.output
        Position(e) == CHOOSE i \in 1..Len(delivered) : delivered[i] = e
    IN /\ Len(stored) = Len(delivered)
       /\ \A i \in 1..Len(delivered) : \E j \in 1..Len(stored) : stored[j] = delivered[i]
       /\ \A i, j \in 1..Len(stored) :
            i < j =>
              /\ CountOf(stored[i]) >= CountOf(stored[j])
              /\ CountOf(stored[i]) = CountOf(stored[j]) =>
                   Position(stored[i]) < Position(stored[j])

C11_Witness ==
  /\ fn.name = "sort"
  /\ fn.input = RosterOf(<<3, 7, 1, 7>>)
  /\ fn.output = <<fn.input[2], fn.input[4], fn.input[1], fn.input[3]>>

\* C13: a key press takes the instant-switch path also with the animation
\* enabled: with a non-empty roster currentUserIndex advances by one modulo
\* |users|, nextAvatarImage is promoted to currentAvatarImage, the prefetch
\* of the next avatar is started and the display shows the new current
\* entry; with an empty roster the index stays.  In both cases no crossfade
\* frame is generated or played for it: generation, frames, frame timer,
\* safety timeout and isTransitioning are as they were.
C13_KeyPressIsInstant ==
  [][rot'.op.name = "onKeyUp" =>
       /\ rot'.frameGens = rot.frameGens
       /\ rot'.transitionFrames = rot.transitionFrames
       /\ rot'.currentFrameIndex = rot.currentFrameIndex
       /\ rot'.transitionInterval = rot.transitionInterval
       /\ rot'.ownSafety = rot.ownSafety
       /\ rot'.isTransitioning = rot.isTransitioning
       /\ rot'.users = rot.users
       /\ IF Len(rot.users) = 0
          THEN /\ rot'.currentUserIndex = rot.currentUserIndex
               /\ rot'.lastDisplayedState = StaticKey("noUsers")
          ELSE /\ rot'.currentUserIndex = (rot.currentUserIndex + 1) % Len(rot.users)
               /\ rot.nextAvatarImage # Null =>
                    /\ rot'.currentAvatarImage = rot.nextAvatarImage
                    /\ rot'.lastDisplayedState =
                         AvatarKey(UserAt(rot'.users, rot'.currentUserIndex),
                                   rot'.currentUserIndex)
               /\ rot'.isFetchingNext \/ rot'.nextAvatarImage # Null]_vars

C13_Witness ==
  /\ rot.op.name = "onKeyUp"
  /\ rot.carouselInterval = "animated"
  /\ rot.currentUserIndex = 1
  /\ rot.currentAvatarImage # Null
  /\ rot.frameGens = << >>
  /\ ~rot.isTransitioning

TokenStarts(s) ==
  {i \in 1..Len(s) : s[i] # " " /\ (i = 1 \/ s[i - 1] = " ")}

\* The k-th smallest element of a set of numbers.
Smallest(k, S) == CHOOSE x \in S : Cardinality({y \in S : y < x}) = k - 1

\* C19: the initials drawn for a display name are the upper-cased first
\* characters of its first two non-empty space-separated tokens - one
\* character for one token, none for none, never more than two - unless
\* override initials are given, which are drawn as they are; a bot whose
\* displayName is Workflows is resolved with the override WF.
C19_InitialsText ==
  /\ fn.name = "initials" =>
       LET displayName == fn.input[1]
           defaultInitials == fn.input[2]
           text == fn.output
           starts == TokenStarts(displayName)
           n == IF Cardinality(starts) < 2 THEN Cardinality(starts) ELSE 2
       IN IF defaultInitials # NoInitials
          THEN text = defaultInitials
          ELSE /\ Len(text) = n
               /\ \A k \in 1..n :
                    /\ text[k] = ToUpperCase(displayName[Smallest(k, starts)])
                    /\ \A i \in 1..Len(LowerCase) : text[k] # LowerCase[i]
  /\ fn.name = "resolve" =>
       LET user == fn.input[1]
       IN (user.fromType = "bot" /\ user.displayName = Workflows) =>
            /\ fn.output.src = "initials"
            /\ fn.output.text = <<"W", "F">>

C19_Witness ==
  /\ fn.name = "initials"
  /\ fn.input[1] = <<" ", "a", " ", "B">>
  /\ fn.input[2] = NoInitials
  /\ fn.output = <<"A", "B">>

\* C20 as stated: overlayCountOnImage(img, 0) is img itself, the same
\* image value as its input.
C20_OverlayZeroIsIdentity ==
  (fn.name = "overlay" /\ fn.input[2] = 0) => fn.output = fn.input[1]

\* C20 amended: overlayCountOnImage(img, 0) draws no badge: its result
\* shows the picture of img and no number that img did not show, but it is
\* img redrawn on the 144 x 144 canvas and encoded anew, not the input
\* value; with a positive count the result shows that count.
C20_OverlayZeroDrawsNoBadge ==
  fn.name = "overlay" =>
    LET img == fn.input[1]
        count == fn.input[2]
    IN /\ fn.output.src = img.src
       /\ fn.output.id = img.id
       /\ fn.output.text = img.text
       /\ fn.output.enc = "canvas"
       /\ fn.output.badge = (IF count = 0 THEN img.badge ELSE count)

C20_Witness ==
  /\ fn.name = "overlay"
  /\ fn.input[2] = 0
  /\ fn.input[1] = FetchedImage(<<"u", "1">>)
  /\ fn.output # fn.input[1]
  /\ fn.output.badge = 0

\* C12: no failure is fatal to a single-avatar session.  A request that
\* throws or a body that cannot be read leaves the error image on display; a
\* fetchData whose avatar request was answered non-2xx has, when it returns,
\* the error image or an avatar image on display, not what was shown before
\* the failure; and whenever a fetchData returns on a visible button a poll
\* timer is scheduled, so that the next tick retries.
C12_NoFailureIsFatal ==
  /\ (av.op.name \in {"avatarArrives", "messagesArrive", "overlayDrawn"}
        /\ av.op.arg = "throw") =>
       /\ av.lastDisplayedImageState = StaticKey("error")
       /\ av.op.done
  /\ (av.op.done /\ av.op.avatar = "http" /\ av.op.arg # "throw") =>
       /\ av.shownImage.src \in {"fetched", "initials"}
       /\ av.lastDisplayedImageState[1] = "avatar"
  /\ (av.op.done /\ av.visible) => (av.interval \/ av.orphanIntervals > 0)

\* C14: when a settings-changed notification has been handled, the avatar
\* cache of the session is empty, in rotating and in single-avatar mode:
\* nothing computed before the change is left in it.
C14_SettingsChangeClearsCache ==
  /\ rot.op.name = "onDidReceiveSettings" => rot.avatarCache = EmptyCache
  /\ av.op.name = "onDidReceiveSettings" => av.avatarCache = EmptyCache

C14_Witness ==
  /\ rot.op.name = "onDidReceiveSettings"
  /\ av.op.name = "onDidReceiveSettings"
  /\ av.avatarImage # Null
  /\ av.avatarCache = EmptyCache
  /\ rot.avatarCache = EmptyCache
  /\ rot.currentAvatarImage = Null
  /\ rot.nextFetches # << >>

TestTitles == {UrlsRequired, TestOK, TestFail, TestError}

C15_TestOverlayReverts ==
  /\ rot.op.name = "testAnswers" =>
       /\ rot.shownTitle \in {TestOK, TestFail, TestError}
       /\ rot.reverts > 0
  /\ (rot.op.name = "testRevert" /\ rot.tests = 0 /\ rot.reverts = 0) =>
       rot.shownTitle \notin TestTitles

\* C18: after every call of updateDisplay the title on the device is the
\* displayName of users[currentUserIndex] when useDisplayNameAsTitle is
\* set, and blank when it is not.
C18_TitleAfterDisplayUpdate ==
  "updateDisplay" \in rot.log =>
    rot.shownTitle = IF rot.settings.useDisplayNameAsTitle
                     THEN UserAt(rot.users, rot.currentUserIndex).displayName
                     ELSE << >>

\* h * 31 + code modulo 2^32, on the 16-bit halves
Times31Plus(h, code) ==
  LET lo == h.lo * 31 + code
  IN Int32((h.hi * 31 + (lo \div Half)) % Half, lo % Half)

RECURSIVE RollingHash(_)
RollingHash(name) ==
  IF name = << >> THEN Int32(0, 0)
  ELSE Times31Plus(RollingHash(SubSeq(name, 1, Len(name) - 1)), charCodeAt(name[Len(name)]))

\* |h| mod 8 for h in two's complement: 2^32 is a multiple of 8
AbsMod8(h) == IF IsNegative(h) THEN (8 - (h.lo % 8)) % 8 ELSE h.lo % 8

\* C21: the background colour of an initials image is entry |h| mod 8 of
\* the palette of 8 colours, h being the rolling hash h := h * 31 + charCode
\* over the full display name, reduced to signed 32 bits after each
\* character and starting from 0; the index lies in 0..7.
C21_ColourFromHash ==
  fn.name = "color" =>
    /\ fn.output.hash = RollingHash(fn.input)
    /\ fn.output.index = AbsMod8(RollingHash(fn.input))
    /\ fn.output.index \in 0..7
    /\ fn.output.backgroundColor = colors[AbsMod8(RollingHash(fn.input)) + 1]

\* A name whose hash has wrapped around and is negative
C21_Witness ==
  /\ fn.name = "color"
  /\ Len(fn.input) > 6
  /\ IsNegative(fn.output.hash)
  /\ fn.output.index # fn.output.hash.lo % 8

\* C22: once fetchData has taken a 200 answer of the messages webhook, the
\* unread count is the length of the array in its body, and 0 when the body
\* is JSON but no array or is no JSON at all; the number drawn over the
\* avatar by that poll is this count.
C22_MessagesFeed ==
  /\ (av.op.name = "messagesArrive" /\ av.op.arg = "ok") =>
       av.unreadCount = av.op.length
  /\ (av.op.name = "messagesArrive" /\ av.op.arg \in {"notArray", "notJson"}) =>
       /\ av.unreadCount = 0
       /\ \A i \in 1..Len(av.fetches) :
            av.fetches[i].stage = "overlay" => av.fetches[i].count = 0

\* C23: while a transition plays, a tick of the frame timer writes frame
\* number currentFrameIndex to the display whatever the dedup key is and
\* moves the index on by one, so that the 25 frames are written in the order
\* 0..24, each once; nothing but the frame timer moves the index or touches
\* the frames while the timer runs; the transition is completed by the tick
\* after the one that wrote frame 24.
C23_FramePlayback ==
  [][/\ (rot'.op.name = "frameTick" /\ rot'.op.arg = "frame" /\ rot' # rot) =>
          /\ Len(rot.transitionFrames) = FrameCount
          /\ rot'.transitionFrames = rot.transitionFrames
          /\ rot'.currentFrameIndex = rot.currentFrameIndex + 1
          /\ rot'.shownImage = rot.transitionFrames[rot.currentFrameIndex + 1]
          /\ rot'.shownImage.wNext = rot.currentFrameIndex
          /\ rot'.transitionInterval
     /\ (rot'.op.name = "frameTick" /\ rot'.op.arg = "complete" /\ rot' # rot) =>
          /\ rot.currentFrameIndex = FrameCount
          /\ rot.shownImage.src = "frame" => rot.shownImage.wNext = LastFrame
          /\ ~rot'.transitionInterval
     /\ (rot.transitionInterval /\ rot'.transitionInterval
           /\ rot'.op.name # "frameTick") =>
          /\ rot'.currentFrameIndex = rot.currentFrameIndex
          /\ rot'.transitionFrames = rot.transitionFrames]_vars

C23_Witness ==
  /\ rot.op.name = "frameTick"
  /\ rot.op.arg = "frame"
  /\ rot.currentFrameIndex = FrameCount
  /\ rot.shownImage.src = "frame"
  /\ rot.shownImage.wNext = LastFrame
  /\ rot.lastDisplayedState # StaticKey("transitioning")

\* What a turn left alone: the state without the record of the turn itself
Fields(st) == [st EXCEPT !.op = NoOp, !.log = {}]

\* C24: a tick of the animated carousel starts a crossfade exactly if the
\* roster is not empty, no transition is running and currentAvatarImage and
\* nextAvatarImage are both there; with a roster and one of the images
\* missing it does the instant switch and isTransitioning stays false, and
\* so does the continuation in which frame generation fails; a tick during
\* a transition changes nothing.
C24_AnimatedTick ==
  [][/\ (rot'.op.name = "carouselTick" /\ rot'.op.arg = "busy" /\ rot' # rot) =>
          /\ rot.isTransitioning
          /\ Fields(rot') = Fields(rot)
     /\ (rot'.op.name = "carouselTick" /\ rot'.op.arg = "animated" /\ rot' # rot) =>
          LET ready == /\ Len(rot.users) > 0
                       /\ ~rot.isTransitioning
                       /\ rot.currentAvatarImage # Null
                       /\ rot.nextAvatarImage # Null
          IN /\ Len(rot'.frameGens) > Len(rot.frameGens) <=> ready
             /\ rot'.isTransitioning <=> ready
             /\ ready =>
                  /\ rot'.currentUserIndex = rot.currentUserIndex
                  /\ rot'.shownImage = rot.shownImage
             /\ (~ready /\ Len(rot.users) > 0) =>
                  /\ Fields(rot') = Fields(showNextUser(rot))
                  /\ rot'.currentUserIndex = NextIndex(rot.currentUserIndex, Len(rot.users))
                  /\ rot'.currentAvatarImage = rot.nextAvatarImage
     /\ (rot'.op.name = "imageLoaded" /\ rot'.op.arg = "failed" /\ rot' # rot) =>
          /\ ~rot'.isTransitioning
          /\ ~rot'.transitionInterval
          /\ Len(rot.users) > 0 =>
               rot'.currentUserIndex = NextIndex(rot.currentUserIndex, Len(rot.users))]_vars

C24_Witness ==
  /\ rot.op.name = "carouselTick"
  /\ rot.op.arg = "animated"
  /\ Len(rot.users) > 0
  /\ ~rot.isTransitioning
  /\ rot.frameGens = << >>
  /\ rot.currentUserIndex = 1
  /\ rot.nextFetches # << >>

\* The composite images a resolution of this user can end with
Composites(st, user) ==
  { ResolvedImage(user, Branch(st, user), outcome) : outcome \in AvatarOutcomes }

\* C25: when a successful poll with a non-empty roster has updated the
\* display, currentAvatarImage is the composite of users[currentUserIndex]
\* (its picture or initials with its count); the update is made in the turn
\* in which the current avatar is resolved, whether or not the resolution
\* of the next avatar has come back.
C25_CurrentResolvedBeforeUpdate ==
  /\ (/\ rot.op.name \in {"rosterArrives", "currentAvatarArrives"}
      /\ "updateDisplay" \in rot.log
      /\ Len(rot.users) > 0) =>
       rot.currentAvatarImage \in Composites(rot, UserAt(rot.users, rot.currentUserIndex))
  /\ rot.op.name = "currentAvatarArrives" => "updateDisplay" \in rot.log

\* C26: between onWillDisappear and the next onWillAppear nothing is
\* written to the display of the session: neither its image nor its title
\* changes, whatever fetch, prefetch or timer comes back in that time.
C26_NoWriteAfterTeardown ==
  [][(~rot.visible /\ ~rot'.visible) =>
       /\ rot'.shownImage = rot.shownImage
       /\ rot'.shownTitle = rot.shownTitle]_vars

Range(s) == { s[i] : i \in 1..Len(s) }

\* C27: the cache of the single-avatar session maps the e-mail address to
\* the picture as the webhook delivered it, without badge.  Under one
\* configuration a poll asks the avatar webhook exactly if the cache has no
\* entry for the address, whatever the unread count is or becomes; an entry
\* is made only by a 2xx avatar answer; and every image a display update
\* writes is the cached picture with the count of that update drawn over it.
C27_BaseImageCached ==
  [][/\ \A email \in DOMAIN av'.avatarCache :
          /\ av'.avatarCache[email].id = email
          /\ av'.avatarCache[email].badge = 0
          /\ av'.avatarCache[email].enc = "blob"
     /\ (av'.op.name \in {"onWillAppear", "pollTick"} /\ av' # av) =>
          /\ Len(av'.fetches) = Len(av.fetches) + 1
          /\ av'.fetches[Len(av'.fetches)].stage =
               (IF CacheHas(av.avatarCache, av.settings.userEmail)
                THEN "messages" ELSE "avatar")
     /\ av'.avatarCache # av.avatarCache =>
          /\ av'.op.name = "avatarArrives"
          /\ av'.op.arg \in {"ok", "badBody"}
     /\ (av'.op.name = "messagesArrive" /\ av' # av) =>
          \A i \in 1..Len(av'.fetches) :
            (av'.fetches[i].stage = "overlay" /\ av'.fetches[i] \notin Range(av.fetches)) =>
               /\ CacheHas(av'.avatarCache, av'.settings.userEmail)
               /\ av'.fetches[i].image = av'.avatarCache[av'.settings.userEmail]
               /\ av'.fetches[i].count = av'.unreadCount
     /\ (av'.op.name = "overlayDrawn" /\ av' # av /\ av'.writes > 0
           /\ av'.shownImage.src # "static") =>
          \E i \in 1..Len(av.fetches) :
            /\ av.fetches[i].stage = "overlay"
            /\ av'.shownImage =
                 overlayCountOnImage(av.fetches[i].image, av.fetches[i].count)
            /\ av'.lastDisplayedImageState =
                 AvatarStateKey(av.settings.userEmail, av.fetches[i].count)]_vars

\* The count has changed from 2 to 0 and the avatar was not asked for again
C27_Witness ==
  /\ av.op.name = "overlayDrawn"
  /\ av.op.avatar = "cached"
  /\ av.writes > 0
  /\ av.unreadCount = 0
  /\ av.shownImage = overlayCountOnImage(FetchedImage(EmailA), 0)
  /\ av.avatarCache[EmailA] = FetchedImage(EmailA)

\* The polls of a session: the timer's and the ones startPolling runs at once
PollTurns == {"pollTick", "onWillAppear", "onDidReceiveSettings"}

InFlight(st) == Len(st.rosterFetches) + Len(st.currentFetches) + Len(st.nextFetches)

\* C28: a poll of a session whose required setting is missing - the rotating
\* webhook URL in rotating mode; the e-mail address, the avatar URL or the
\* messages URL in single-avatar mode - shows the configRequired image and
\* sends no request, and so does every later poll for as long as the
\* setting is missing.
C28_ConfigMissing ==
  [][/\ (rot'.op.name \in PollTurns /\ rot' # rot /\ ~rot'.settings.rotatingWebhookUrl) =>
          /\ rot'.lastDisplayedState = StaticKey("configRequired")
          /\ rot'.shownImage = StaticImage("configRequired")
          /\ InFlight(rot') <= InFlight(rot)
          /\ rot'.rosterFetches = << >>
     /\ (/\ av'.op.name \in PollTurns
         /\ av' # av
         /\ \/ av'.settings.userEmail = << >>
            \/ ~av'.settings.avatarWebhookUrl
            \/ ~av'.settings.messagesWebhookUrl) =>
          /\ av'.lastDisplayedImageState = StaticKey("configRequired")
          /\ av'.shownImage = StaticImage("configRequired")
          /\ av'.fetches = << >>
          /\ av'.op.done]_vars

\* A second poll of each session with the setting still missing
C28_Witness ==
  /\ rot.op.name = "pollTick"
  /\ ~rot.settings.rotatingWebhookUrl
  /\ rot.changes = 1
  /\ rot.shownImage = StaticImage("configRequired")
  /\ InFlight(rot) = 0
  /\ av.op.name = "pollTick"
  /\ ~av.settings.messagesWebhookUrl
  /\ av.changes = 1
  /\ av.avatarImage # Null
  /\ av.shownImage = StaticImage("configRequired")

\* The static image fetchUsersData shows for a failed roster request
FailureImage(outcome) == IF outcome = "notArray" THEN "invalidData" ELSE "error"

FailedRosterPoll ==
  /\ rot'.op.name = "rosterArrives"
  /\ rot'.op.arg \in {"throw", "http", "notArray"}
  /\ Len(rot'.rosterFetches) < Len(rot.rosterFetches)

\* C29: a roster poll whose request throws, is answered non-2xx or is
\* answered with a body that is no array leaves users, currentUserIndex,
\* currentAvatarImage, nextAvatarImage and the avatar cache as they were
\* and shows the error image (the invalidData image for the non-array body).
C29_FailedPollPreservesState ==
  [][FailedRosterPoll =>
       /\ rot'.users = rot.users
       /\ rot'.currentUserIndex = rot.currentUserIndex
       /\ rot'.currentAvatarImage = rot.currentAvatarImage
       /\ rot'.nextAvatarImage = rot.nextAvatarImage
       /\ rot'.avatarCache = rot.avatarCache
       /\ rot'.lastDisplayedState = StaticKey(FailureImage(rot'.op.arg))
       /\ rot'.shownImage = StaticImage(FailureImage(rot'.op.arg))]_vars

\* The buckets of the opaque pixels (alpha at least 128) among those at every
\* 8th column of every 8th row, in scan order
OpaqueSamples(imageData) ==
  LET Pixel(x, y) ==
        [c \in 1..4 |-> imageData.data[(y * imageData.width + x) * 4 + c - 1]]
      cols == Cardinality({x \in 0..(imageData.width - 1) : x % 8 = 0})
      rows == Cardinality({y \in 0..(imageData.height - 1) : y % 8 = 0})
      visited == [k \in 1..(cols * rows) |->
                    Pixel(8 * ((k - 1) % cols), 8 * ((k - 1) \div cols))]
      IsOpaque(pixel) == pixel[4] >= 128
      opaque == SelectSeq(visited, IsOpaque)
  IN [k \in 1..Len(opaque) |-> [c \in 1..3 |-> opaque[k][c] - (opaque[k][c] % 32)]]

Frequency(buckets, b) == Cardinality({k \in 1..Len(buckets) : buckets[k] = b})

MostFrequent(buckets) ==
  {b \in Range(buckets) :
     \A c \in Range(buckets) : Frequency(buckets, c) <= Frequency(buckets, b)}

\* Of the most frequent buckets the one met first in the scan
FirstSeen(buckets) ==
  buckets[CHOOSE k \in 1..Len(buckets) :
            /\ buckets[k] \in MostFrequent(buckets)
            /\ \A j \in 1..(k - 1) : buckets[j] \notin MostFrequent(buckets)]

\* Of the most frequent buckets the one whose count got there first: the
\* bucket of the sample that ends the shortest prefix of the scan in which
\* some bucket already has the maximal frequency
FirstToReach(buckets) ==
  buckets[CHOOSE k \in 1..Len(buckets) :
            /\ Frequency(SubSeq(buckets, 1, k), buckets[k]) = Frequency(buckets, buckets[k])
            /\ buckets[k] \in MostFrequent(buckets)
            /\ \A j \in 1..(k - 1) :
                 \/ buckets[j] \notin MostFrequent(buckets)
                 \/ Frequency(SubSeq(buckets, 1, j), buckets[j]) < Frequency(buckets, buckets[j])]

Gray == <<128, 128, 128>>

\* C30 as stated: getDominantColor returns the most frequent bucket of the
\* opaque samples (stride 8, alpha >= 128, channels rounded down to
\* multiples of 32); of several buckets with the maximal frequency it returns
\* the one seen first in scan order; with no opaque sample it returns
\* (128, 128, 128).
C30_DominantFirstSeen ==
  fn.name = "dominant" =>
    fn.output = IF OpaqueSamples(fn.input) = << >>
                THEN Gray
                ELSE FirstSeen(OpaqueSamples(fn.input))

\* C30 amended: getDominantColor returns the most frequent bucket of the
\* opaque samples (stride 8, alpha >= 128, channels rounded down to
\* multiples of 32); of several buckets with the maximal frequency it returns
\* the one whose count reached that frequency first in scan order; with no
\* opaque sample it returns (128, 128, 128).
C30_DominantFirstToReach ==
  fn.name = "dominant" =>
    /\ OpaqueSamples(fn.input) = << >> => fn.output = Gray
    /\ OpaqueSamples(fn.input) # << >> =>
         /\ fn.output \in MostFrequent(OpaqueSamples(fn.input))
         /\ fn.output = FirstToReach(OpaqueSamples(fn.input))

\* Two buckets tie and the one seen second got to the maximum first
C30_Witness ==
  /\ fn.name = "dominant"
  /\ Cardinality(MostFrequent(OpaqueSamples(fn.input))) = 2
  /\ fn.output = <<0, 0, 224>>
  /\ FirstSeen(OpaqueSamples(fn.input)) = <<192, 0, 0>>
  /\ fn.input.width = 9
  /\ fn.input.height = 9

\* C31: currentUserIndex is an index of the roster, 0 <= currentUserIndex <
\* |users|, whenever the roster is not empty and is 0 whenever it is empty.
C31_IndexValid ==
  IF Len(rot.users) > 0
  THEN rot.currentUserIndex \in 0..(Len(rot.users) - 1)
  ELSE rot.currentUserIndex = 0

\* The roster entries the rotating webhook delivers
Entries == UNION {Range(usersData) : usersData \in RosterResponses}

\* The composite images a resolution for the userId and count of an avatar
\* key can end with
CompositesOfKey(st, stateKey) ==
  UNION {Composites(st, user) :
           user \in {e \in Entries : e.userId = stateKey[2] /\ CountOf(e) = stateKey[3]}}

\* C32: whenever lastDisplayedState is the avatar key of a userId and count
\* and no transition is playing, the image last written to the display is
\* the composite image resolved for that userId and count.
C32_ImageMatchesKey ==
  (rot.lastDisplayedState[1] = "avatar" /\ ~rot.isTransitioning) =>
    rot.shownImage \in CompositesOfKey(rot, rot.lastDisplayedState)

\* C33: whenever nextAvatarImage is set and no resolution of a next avatar
\* is in flight, it is the composite image of the roster entry after the
\* current one, users[(currentUserIndex + 1) mod |users|], with the count
\* that entry has now.
C33_NextImageIsNextUsers ==
  (/\ rot.nextAvatarImage # Null
   /\ rot.nextFetches = << >>
   /\ Len(rot.users) > 0) =>
    rot.nextAvatarImage \in
      Composites(rot, UserAt(rot.users, NextIndex(rot.currentUserIndex, Len(rot.users))))

\* The poll timers of the single-avatar session that are scheduled
ScheduledIntervals(a) == (IF a.interval THEN 1 ELSE 0) + a.orphanIntervals

\* C34: a single-avatar session has at most one poll timer scheduled at any
\* time, and none once onWillDisappear has been handled (until it appears
\* again).
C34_OnePollTimer ==
  /\ ScheduledIntervals(av) <= 1
  /\ ~av.visible => ScheduledIntervals(av) = 0

\* The turn continues a roster poll, or an avatar resolution, that began
\* before the last settings change
StaleRosterArrives ==
  /\ rot'.op.name = "rosterArrives"
  /\ \E i \in 1..Len(rot.rosterFetches) :
       /\ rot.rosterFetches[i] < rot.changes
       /\ rot'.rosterFetches = RemoveAt(rot.rosterFetches, i)

StaleCurrentAvatarArrives ==
  /\ rot'.op.name = "currentAvatarArrives"
  /\ \E i \in 1..Len(rot.currentFetches) :
       /\ rot.currentFetches[i].epoch < rot.changes
       /\ rot'.currentFetches = RemoveAt(rot.currentFetches, i)

StaleNextAvatarArrives ==
  /\ rot'.op.name = "nextAvatarArrives"
  /\ \E i \in 1..Len(rot.nextFetches) :
       /\ rot.nextFetches[i].epoch < rot.changes
       /\ rot'.nextFetches = RemoveAt(rot.nextFetches, i)

\* C35: a roster poll or avatar resolution that began before a settings
\* change and completes after it writes nothing into users, the cache,
\* currentAvatarImage or nextAvatarImage.
C35_NoStaleResults ==
  [][(StaleRosterArrives \/ StaleCurrentAvatarArrives \/ StaleNextAvatarArrives) =>
       /\ rot'.users = rot.users
       /\ rot'.avatarCache = rot.avatarCache
       /\ rot'.currentAvatarImage = rot.currentAvatarImage
       /\ rot'.nextAvatarImage = rot.nextAvatarImage]_vars

\* C36: isFetchingNext (isFetchingCurrent) is set only while a
\* prefetchNextAvatar (prefetchCurrentAvatar) is at one of its awaits, and
\* the turn in which a resolution ends leaves its flag cleared, whichever
\* way it went: cache hit, bot, no avatar URL, picture fetched, non-2xx
\* answer, failed request, or a body the badge cannot be drawn on.
C36_FlagsReleased ==
  /\ rot.isFetchingNext => rot.nextFetches # << >>
  /\ rot.isFetchingCurrent => rot.currentFetches # << >>
  /\ rot.op.name = "nextAvatarArrives" => ~rot.isFetchingNext
  /\ rot.op.name = "currentAvatarArrives" => ~rot.isFetchingCurrent

\* C37: whenever isTransitioning is true it becomes false again, provided
\* that scheduled timers fire and image loads end.
C37_TransitionTerminates == rot.isTransitioning ~> ~rot.isTransitioning

\* A teardown in the middle of the playback: the frame timer is gone, the
\* flag is still set and only the safety timeout is left to clear it
C37_Witness ==
  /\ rot.isTransitioning
  /\ ~rot.visible
  /\ ~rot.transitionInterval
  /\ rot.frameGens = << >>
  /\ rot.staleSafety > 0
  /\ rot.currentFrameIndex > 0

\* C38: a scheduled frame timer, a pending safety timeout or a non-empty
\* sequence of transition frames is found only while isTransitioning is
\* true.
C38_TransitionStateConfined ==
  (\/ rot.transitionInterval
   \/ rot.ownSafety
   \/ rot.staleSafety > 0
   \/ rot.transitionFrames # << >>) => rot.isTransitioning

\* C39: the frame timer's turn that completes a transition promotes to
\* currentAvatarImage the image the played frames fade to, and
\* currentUserIndex is then one past the index the transition started with:
\* no turn taken in the middle of a transition (a poll, the end of a
\* prefetch, a key press) moves the index.
C39_TargetPromoted ==
  [][/\ (/\ rot'.op.name = "frameTick" /\ rot'.op.arg = "complete"
         /\ rot.transitionFrames # << >>) =>
          /\ rot'.currentAvatarImage = rot.transitionFrames[1].next
          /\ rot'.currentUserIndex = NextIndex(rot.currentUserIndex, Len(rot.users))
     /\ (rot.isTransitioning /\ rot'.isTransitioning) =>
          rot'.currentUserIndex = rot.currentUserIndex]_vars

\* C40: whenever the single-avatar session's display state is the avatar key
\* of an e-mail, the avatar on the display is the one fetched for that
\* e-mail; after a change to another userEmail the avatar of the previous
\* e-mail is never shown under a key of the new one.
C40_NoAvatarCarryOver ==
  av.lastDisplayedImageState[1] = "avatar" =>
    av.shownImage.id = av.lastDisplayedImageState[2]

====
